---- MODULE Spec2Model ----
(***************************************************************************)
(* A model of envsure's .env parser (src/src/parser.ts): parseEnvFile,     *)
(* parseValue and findCaseMismatches.                                      *)
(*                                                                         *)
(* A JavaScript string is a sequence of one-character strings, so that     *)
(* trimming, splitting, quoting and message formatting are computed        *)
(* character by character as the code computes them.  A JavaScript Map is  *)
(* a sequence of [k, v] records in insertion order.                        *)
(***************************************************************************)
EXTENDS Integers, Sequences, FiniteSets, TLC

(***************************************************************************)
(* Bounds of the model.                                                    *)
(***************************************************************************)
\* lines of a file built from LineSet
MaxLines == 3
\* characters of a file drawn character by character from ContentAlphabet
MaxContentLen == 5
\* characters of a raw value drawn from ValueAlphabet
MaxValueLen == 5
\* keys in each list handed to findCaseMismatches
MaxKeys == 3
\* lines of each file a command runs on
MaxCmdLines == 2
\* lines of the example file explain runs on
MaxExplainLines == 3
\* characters of a value handed to inferType, drawn from TypeAlphabet
MaxTypeLen == 3

(***************************************************************************)
(* String.prototype helpers, on sequences of characters.                   *)
(***************************************************************************)
\* A character is a string of one character; a character that a string of
\* this notation cannot hold is written as its code point, "U+2028".

\* the LineTerminator characters: the regular expression atom "." does not
\* match them
LineTerminators == {"\n", "\r", "U+2028", "U+2029"}

\* what String.prototype.trim removes: the WhiteSpace characters (tab, VT,
\* FF, the no-break space, the byte order mark and the space separators)
\* and the line terminators
WhiteSpace ==
    {"\t", "U+000B", "\f", " ", "U+00A0", "U+FEFF", "U+1680",
     "U+2000", "U+2001", "U+2002", "U+2003", "U+2004", "U+2005", "U+2006",
     "U+2007", "U+2008", "U+2009", "U+200A", "U+202F", "U+205F", "U+3000"}
        \cup LineTerminators

RECURSIVE trimStart(_)
trimStart(s) ==
    IF s = <<>> THEN s
    ELSE IF Head(s) \in WhiteSpace THEN trimStart(Tail(s)) ELSE s

RECURSIVE trimEnd(_)
trimEnd(s) ==
    IF s = <<>> THEN s
    ELSE IF s[Len(s)] \in WhiteSpace THEN trimEnd(SubSeq(s, 1, Len(s) - 1)) ELSE s

trim(s) == trimEnd(trimStart(s))

startsWith(s, p) == Len(s) >= Len(p) /\ SubSeq(s, 1, Len(p)) = p

endsWith(s, p) == Len(s) >= Len(p) /\ SubSeq(s, Len(s) - Len(p) + 1, Len(s)) = p

\* s.indexOf(p): the 0-based position of the first occurrence of p, or -1
indexOf(s, p) ==
    LET hits == {k \in 0..(Len(s) - Len(p)) : SubSeq(s, k + 1, k + Len(p)) = p}
    IN  IF hits = {} THEN -1 ELSE CHOOSE k \in hits : \A j \in hits : k <= j

includes(s, p) == indexOf(s, p) # -1

\* s.substring(a, b) for 0 <= a <= b, positions 0-based, b clamped to the length
substring(s, a, b) == SubSeq(s, a + 1, IF b > Len(s) THEN Len(s) ELSE b)

\* s.slice(1, -1)
sliceInner(s) == SubSeq(s, 2, Len(s) - 1)

\* s.replace(/p/g, r) for a literal pattern p: left to right, non-overlapping
RECURSIVE replaceAll(_, _, _)
replaceAll(s, p, r) ==
    IF s = <<>> THEN s
    ELSE IF startsWith(s, p)
         THEN r \o replaceAll(SubSeq(s, Len(p) + 1, Len(s)), p, r)
         ELSE <<Head(s)>> \o replaceAll(Tail(s), p, r)

\* s.split(sep) for a one-character separator: never the empty sequence
RECURSIVE split(_, _)
split(s, sep) ==
    LET k == indexOf(s, <<sep>>)
    IN  IF k = -1 THEN <<s>>
        ELSE <<SubSeq(s, 1, k)>> \o split(SubSeq(s, k + 2, Len(s)), sep)

\* parts.join(sep)
RECURSIVE join(_, _)
join(parts, sep) ==
    IF parts = <<>> THEN <<>>
    ELSE IF Len(parts) = 1 THEN parts[1]
    ELSE parts[1] \o sep \o join(Tail(parts), sep)

Digits == <<"0", "1", "2", "3", "4", "5", "6", "7", "8", "9">>

\* String(n) for a natural number n, as a template literal renders it
RECURSIVE numberToString(_)
numberToString(n) ==
    IF n < 10 THEN <<Digits[n + 1]>>
    ELSE numberToString(n \div 10) \o <<Digits[(n % 10) + 1]>>

\* the letters of the classes [A-Z] and [a-z] of the regular expressions
UpperCase ==
    <<"A", "B", "C", "D", "E", "F", "G", "H", "I", "J", "K", "L", "M",
      "N", "O", "P", "Q", "R", "S", "T", "U", "V", "W", "X", "Y", "Z">>

LowerCase ==
    <<"a", "b", "c", "d", "e", "f", "g", "h", "i", "j", "k", "l", "m",
      "n", "o", "p", "q", "r", "s", "t", "u", "v", "w", "x", "y", "z">>

(***************************************************************************)
(* String.prototype.toLowerCase: the string is read as code points, a      *)
(* code point outside the Basic Multilingual Plane being a pair of         *)
(* surrogate code units, and each is lowered by the Unicode default case   *)
(* conversion.                                                             *)
(***************************************************************************)
\* the characters U+0020 to U+007E, as this notation writes them
PrintableAscii ==
    <<" ", "!", "\"", "#", "$", "%", "&", "'", "(", ")", "*", "+", ",", "-", ".", "/",
      "0", "1", "2", "3", "4", "5", "6", "7", "8", "9", ":", ";", "<", "=", ">", "?",
      "@", "A", "B", "C", "D", "E", "F", "G", "H", "I", "J", "K", "L", "M", "N", "O",
      "P", "Q", "R", "S", "T", "U", "V", "W", "X", "Y", "Z", "[", "\\", "]", "^", "_",
      "U+0060", "a", "b", "c", "d", "e", "f", "g", "h", "i", "j", "k", "l", "m", "n", "o",
      "p", "q", "r", "s", "t", "u", "v", "w", "x", "y", "z", "{", "|", "}", "~">>

HexDigits ==
    <<"0", "1", "2", "3", "4", "5", "6", "7", "8", "9", "A", "B", "C", "D", "E", "F">>

\* String.fromCharCode(n): the character of the code unit n
fromCharCode(n) ==
    IF n >= 32 /\ n <= 126 THEN PrintableAscii[n - 31]
    ELSE IF n = 9 THEN "\t"
    ELSE IF n = 10 THEN "\n"
    ELSE IF n = 12 THEN "\f"
    ELSE IF n = 13 THEN "\r"
    ELSE "U+" \o HexDigits[((n \div 4096) % 16) + 1] \o HexDigits[((n \div 256) % 16) + 1]
              \o HexDigits[((n \div 16) % 16) + 1] \o HexDigits[(n % 16) + 1]

\* String.fromCodePoint(n): one code unit, or a pair of surrogates
fromCodePoint(n) ==
    IF n < 65536 THEN <<fromCharCode(n)>>
    ELSE <<fromCharCode(\hD800 + (n - 65536) \div 1024),
           fromCharCode(\hDC00 + ((n - 65536) % 1024))>>

HighSurrogates == {fromCharCode(n) : n \in \hD800..\hDBFF}

LowSurrogates == {fromCharCode(n) : n \in \hDC00..\hDFFF}

\* the simple case mappings of Unicode 17.0.0, in runs <<first, last, step,
\* delta>>: the code points first, first + step, ... up to last become the
\* code point delta further
LowerCaseRuns ==
    {<<\h0041, \h005A, 1, 32>>, <<\h00C0, \h00D6, 1, 32>>, <<\h00D8, \h00DE, 1, 32>>,
     <<\h0100, \h012E, 2, 1>>, <<\h0132, \h0136, 2, 1>>, <<\h0139, \h0147, 2, 1>>,
     <<\h014A, \h0176, 2, 1>>, <<\h0178, \h0178, 1, -121>>, <<\h0179, \h017D, 2, 1>>,
     <<\h0181, \h0181, 1, 210>>, <<\h0182, \h0184, 2, 1>>, <<\h0186, \h0186, 1, 206>>,
     <<\h0187, \h0187, 1, 1>>, <<\h0189, \h018A, 1, 205>>, <<\h018B, \h018B, 1, 1>>,
     <<\h018E, \h018E, 1, 79>>, <<\h018F, \h018F, 1, 202>>, <<\h0190, \h0190, 1, 203>>,
     <<\h0191, \h0191, 1, 1>>, <<\h0193, \h0193, 1, 205>>, <<\h0194, \h0194, 1, 207>>,
     <<\h0196, \h0196, 1, 211>>, <<\h0197, \h0197, 1, 209>>, <<\h0198, \h0198, 1, 1>>,
     <<\h019C, \h019C, 1, 211>>, <<\h019D, \h019D, 1, 213>>, <<\h019F, \h019F, 1, 214>>,
     <<\h01A0, \h01A4, 2, 1>>, <<\h01A6, \h01A6, 1, 218>>, <<\h01A7, \h01A7, 1, 1>>,
     <<\h01A9, \h01A9, 1, 218>>, <<\h01AC, \h01AC, 1, 1>>, <<\h01AE, \h01AE, 1, 218>>,
     <<\h01AF, \h01AF, 1, 1>>, <<\h01B1, \h01B2, 1, 217>>, <<\h01B3, \h01B5, 2, 1>>,
     <<\h01B7, \h01B7, 1, 219>>, <<\h01B8, \h01B8, 1, 1>>, <<\h01BC, \h01BC, 1, 1>>,
     <<\h01C4, \h01C4, 1, 2>>, <<\h01C5, \h01C5, 1, 1>>, <<\h01C7, \h01C7, 1, 2>>,
     <<\h01C8, \h01C8, 1, 1>>, <<\h01CA, \h01CA, 1, 2>>, <<\h01CB, \h01DB, 2, 1>>,
     <<\h01DE, \h01EE, 2, 1>>, <<\h01F1, \h01F1, 1, 2>>, <<\h01F2, \h01F4, 2, 1>>,
     <<\h01F6, \h01F6, 1, -97>>, <<\h01F7, \h01F7, 1, -56>>, <<\h01F8, \h021E, 2, 1>>,
     <<\h0220, \h0220, 1, -130>>, <<\h0222, \h0232, 2, 1>>, <<\h023A, \h023A, 1, 10795>>,
     <<\h023B, \h023B, 1, 1>>, <<\h023D, \h023D, 1, -163>>, <<\h023E, \h023E, 1, 10792>>,
     <<\h0241, \h0241, 1, 1>>, <<\h0243, \h0243, 1, -195>>, <<\h0244, \h0244, 1, 69>>,
     <<\h0245, \h0245, 1, 71>>, <<\h0246, \h024E, 2, 1>>, <<\h0370, \h0372, 2, 1>>,
     <<\h0376, \h0376, 1, 1>>, <<\h037F, \h037F, 1, 116>>, <<\h0386, \h0386, 1, 38>>,
     <<\h0388, \h038A, 1, 37>>, <<\h038C, \h038C, 1, 64>>, <<\h038E, \h038F, 1, 63>>,
     <<\h0391, \h03A1, 1, 32>>, <<\h03A3, \h03AB, 1, 32>>, <<\h03CF, \h03CF, 1, 8>>,
     <<\h03D8, \h03EE, 2, 1>>, <<\h03F4, \h03F4, 1, -60>>, <<\h03F7, \h03F7, 1, 1>>,
     <<\h03F9, \h03F9, 1, -7>>, <<\h03FA, \h03FA, 1, 1>>, <<\h03FD, \h03FF, 1, -130>>,
     <<\h0400, \h040F, 1, 80>>, <<\h0410, \h042F, 1, 32>>, <<\h0460, \h0480, 2, 1>>,
     <<\h048A, \h04BE, 2, 1>>, <<\h04C0, \h04C0, 1, 15>>, <<\h04C1, \h04CD, 2, 1>>,
     <<\h04D0, \h052E, 2, 1>>, <<\h0531, \h0556, 1, 48>>, <<\h10A0, \h10C5, 1, 7264>>,
     <<\h10C7, \h10C7, 1, 7264>>, <<\h10CD, \h10CD, 1, 7264>>, <<\h13A0, \h13EF, 1, 38864>>,
     <<\h13F0, \h13F5, 1, 8>>, <<\h1C89, \h1C89, 1, 1>>, <<\h1C90, \h1CBA, 1, -3008>>,
     <<\h1CBD, \h1CBF, 1, -3008>>, <<\h1E00, \h1E94, 2, 1>>, <<\h1E9E, \h1E9E, 1, -7615>>,
     <<\h1EA0, \h1EFE, 2, 1>>, <<\h1F08, \h1F0F, 1, -8>>, <<\h1F18, \h1F1D, 1, -8>>,
     <<\h1F28, \h1F2F, 1, -8>>, <<\h1F38, \h1F3F, 1, -8>>, <<\h1F48, \h1F4D, 1, -8>>,
     <<\h1F59, \h1F5F, 2, -8>>, <<\h1F68, \h1F6F, 1, -8>>, <<\h1F88, \h1F8F, 1, -8>>,
     <<\h1F98, \h1F9F, 1, -8>>, <<\h1FA8, \h1FAF, 1, -8>>, <<\h1FB8, \h1FB9, 1, -8>>,
     <<\h1FBA, \h1FBB, 1, -74>>, <<\h1FBC, \h1FBC, 1, -9>>, <<\h1FC8, \h1FCB, 1, -86>>,
     <<\h1FCC, \h1FCC, 1, -9>>, <<\h1FD8, \h1FD9, 1, -8>>, <<\h1FDA, \h1FDB, 1, -100>>,
     <<\h1FE8, \h1FE9, 1, -8>>, <<\h1FEA, \h1FEB, 1, -112>>, <<\h1FEC, \h1FEC, 1, -7>>,
     <<\h1FF8, \h1FF9, 1, -128>>, <<\h1FFA, \h1FFB, 1, -126>>, <<\h1FFC, \h1FFC, 1, -9>>,
     <<\h2126, \h2126, 1, -7517>>, <<\h212A, \h212A, 1, -8383>>,
     <<\h212B, \h212B, 1, -8262>>, <<\h2132, \h2132, 1, 28>>, <<\h2160, \h216F, 1, 16>>,
     <<\h2183, \h2183, 1, 1>>, <<\h24B6, \h24CF, 1, 26>>, <<\h2C00, \h2C2F, 1, 48>>,
     <<\h2C60, \h2C60, 1, 1>>, <<\h2C62, \h2C62, 1, -10743>>, <<\h2C63, \h2C63, 1, -3814>>,
     <<\h2C64, \h2C64, 1, -10727>>, <<\h2C67, \h2C6B, 2, 1>>, <<\h2C6D, \h2C6D, 1, -10780>>,
     <<\h2C6E, \h2C6E, 1, -10749>>, <<\h2C6F, \h2C6F, 1, -10783>>,
     <<\h2C70, \h2C70, 1, -10782>>, <<\h2C72, \h2C72, 1, 1>>, <<\h2C75, \h2C75, 1, 1>>,
     <<\h2C7E, \h2C7F, 1, -10815>>, <<\h2C80, \h2CE2, 2, 1>>, <<\h2CEB, \h2CED, 2, 1>>,
     <<\h2CF2, \h2CF2, 1, 1>>, <<\hA640, \hA66C, 2, 1>>, <<\hA680, \hA69A, 2, 1>>,
     <<\hA722, \hA72E, 2, 1>>, <<\hA732, \hA76E, 2, 1>>, <<\hA779, \hA77B, 2, 1>>,
     <<\hA77D, \hA77D, 1, -35332>>, <<\hA77E, \hA786, 2, 1>>, <<\hA78B, \hA78B, 1, 1>>,
     <<\hA78D, \hA78D, 1, -42280>>, <<\hA790, \hA792, 2, 1>>, <<\hA796, \hA7A8, 2, 1>>,
     <<\hA7AA, \hA7AA, 1, -42308>>, <<\hA7AB, \hA7AB, 1, -42319>>,
     <<\hA7AC, \hA7AC, 1, -42315>>, <<\hA7AD, \hA7AD, 1, -42305>>,
     <<\hA7AE, \hA7AE, 1, -42308>>, <<\hA7B0, \hA7B0, 1, -42258>>,
     <<\hA7B1, \hA7B1, 1, -42282>>, <<\hA7B2, \hA7B2, 1, -42261>>,
     <<\hA7B3, \hA7B3, 1, 928>>, <<\hA7B4, \hA7C2, 2, 1>>, <<\hA7C4, \hA7C4, 1, -48>>,
     <<\hA7C5, \hA7C5, 1, -42307>>, <<\hA7C6, \hA7C6, 1, -35384>>, <<\hA7C7, \hA7C9, 2, 1>>,
     <<\hA7CB, \hA7CB, 1, -42343>>, <<\hA7CC, \hA7DA, 2, 1>>, <<\hA7DC, \hA7DC, 1, -42561>>,
     <<\hA7F5, \hA7F5, 1, 1>>, <<\hFF21, \hFF3A, 1, 32>>, <<\h10400, \h10427, 1, 40>>,
     <<\h104B0, \h104D3, 1, 40>>, <<\h10570, \h1057A, 1, 39>>, <<\h1057C, \h1058A, 1, 39>>,
     <<\h1058C, \h10592, 1, 39>>, <<\h10594, \h10595, 1, 39>>, <<\h10C80, \h10CB2, 1, 64>>,
     <<\h10D50, \h10D65, 1, 32>>, <<\h118A0, \h118BF, 1, 32>>, <<\h16E40, \h16E5F, 1, 32>>,
     <<\h16EA0, \h16EB8, 1, 27>>, <<\h1E900, \h1E921, 1, 34>>}

\* the Case_Ignorable code points, in ranges <<first, last>>: the condition
\* Final_Sigma skips them
CaseIgnorableRanges ==
    {<<\h0027, \h0027>>, <<\h002E, \h002E>>, <<\h003A, \h003A>>, <<\h005E, \h005E>>,
     <<\h0060, \h0060>>, <<\h00A8, \h00A8>>, <<\h00AD, \h00AD>>, <<\h00AF, \h00AF>>,
     <<\h00B4, \h00B4>>, <<\h00B7, \h00B8>>, <<\h02B0, \h036F>>, <<\h0374, \h0375>>,
     <<\h037A, \h037A>>, <<\h0384, \h0385>>, <<\h0387, \h0387>>, <<\h0483, \h0489>>,
     <<\h0559, \h0559>>, <<\h055F, \h055F>>, <<\h0591, \h05BD>>, <<\h05BF, \h05BF>>,
     <<\h05C1, \h05C2>>, <<\h05C4, \h05C5>>, <<\h05C7, \h05C7>>, <<\h05F4, \h05F4>>,
     <<\h0600, \h0605>>, <<\h0610, \h061A>>, <<\h061C, \h061C>>, <<\h0640, \h0640>>,
     <<\h064B, \h065F>>, <<\h0670, \h0670>>, <<\h06D6, \h06DD>>, <<\h06DF, \h06E8>>,
     <<\h06EA, \h06ED>>, <<\h070F, \h070F>>, <<\h0711, \h0711>>, <<\h0730, \h074A>>,
     <<\h07A6, \h07B0>>, <<\h07EB, \h07F5>>, <<\h07FA, \h07FA>>, <<\h07FD, \h07FD>>,
     <<\h0816, \h082D>>, <<\h0859, \h085B>>, <<\h0888, \h0888>>, <<\h0890, \h0891>>,
     <<\h0897, \h089F>>, <<\h08C9, \h0902>>, <<\h093A, \h093A>>, <<\h093C, \h093C>>,
     <<\h0941, \h0948>>, <<\h094D, \h094D>>, <<\h0951, \h0957>>, <<\h0962, \h0963>>,
     <<\h0971, \h0971>>, <<\h0981, \h0981>>, <<\h09BC, \h09BC>>, <<\h09C1, \h09C4>>,
     <<\h09CD, \h09CD>>, <<\h09E2, \h09E3>>, <<\h09FE, \h09FE>>, <<\h0A01, \h0A02>>,
     <<\h0A3C, \h0A3C>>, <<\h0A41, \h0A42>>, <<\h0A47, \h0A48>>, <<\h0A4B, \h0A4D>>,
     <<\h0A51, \h0A51>>, <<\h0A70, \h0A71>>, <<\h0A75, \h0A75>>, <<\h0A81, \h0A82>>,
     <<\h0ABC, \h0ABC>>, <<\h0AC1, \h0AC5>>, <<\h0AC7, \h0AC8>>, <<\h0ACD, \h0ACD>>,
     <<\h0AE2, \h0AE3>>, <<\h0AFA, \h0AFF>>, <<\h0B01, \h0B01>>, <<\h0B3C, \h0B3C>>,
     <<\h0B3F, \h0B3F>>, <<\h0B41, \h0B44>>, <<\h0B4D, \h0B4D>>, <<\h0B55, \h0B56>>,
     <<\h0B62, \h0B63>>, <<\h0B82, \h0B82>>, <<\h0BC0, \h0BC0>>, <<\h0BCD, \h0BCD>>,
     <<\h0C00, \h0C00>>, <<\h0C04, \h0C04>>, <<\h0C3C, \h0C3C>>, <<\h0C3E, \h0C40>>,
     <<\h0C46, \h0C48>>, <<\h0C4A, \h0C4D>>, <<\h0C55, \h0C56>>, <<\h0C62, \h0C63>>,
     <<\h0C81, \h0C81>>, <<\h0CBC, \h0CBC>>, <<\h0CBF, \h0CBF>>, <<\h0CC6, \h0CC6>>,
     <<\h0CCC, \h0CCD>>, <<\h0CE2, \h0CE3>>, <<\h0D00, \h0D01>>, <<\h0D3B, \h0D3C>>,
     <<\h0D41, \h0D44>>, <<\h0D4D, \h0D4D>>, <<\h0D62, \h0D63>>, <<\h0D81, \h0D81>>,
     <<\h0DCA, \h0DCA>>, <<\h0DD2, \h0DD4>>, <<\h0DD6, \h0DD6>>, <<\h0E31, \h0E31>>,
     <<\h0E34, \h0E3A>>, <<\h0E46, \h0E4E>>, <<\h0EB1, \h0EB1>>, <<\h0EB4, \h0EBC>>,
     <<\h0EC6, \h0EC6>>, <<\h0EC8, \h0ECE>>, <<\h0F18, \h0F19>>, <<\h0F35, \h0F35>>,
     <<\h0F37, \h0F37>>, <<\h0F39, \h0F39>>, <<\h0F71, \h0F7E>>, <<\h0F80, \h0F84>>,
     <<\h0F86, \h0F87>>, <<\h0F8D, \h0F97>>, <<\h0F99, \h0FBC>>, <<\h0FC6, \h0FC6>>,
     <<\h102D, \h1030>>, <<\h1032, \h1037>>, <<\h1039, \h103A>>, <<\h103D, \h103E>>,
     <<\h1058, \h1059>>, <<\h105E, \h1060>>, <<\h1071, \h1074>>, <<\h1082, \h1082>>,
     <<\h1085, \h1086>>, <<\h108D, \h108D>>, <<\h109D, \h109D>>, <<\h10FC, \h10FC>>,
     <<\h135D, \h135F>>, <<\h1712, \h1714>>, <<\h1732, \h1733>>, <<\h1752, \h1753>>,
     <<\h1772, \h1773>>, <<\h17B4, \h17B5>>, <<\h17B7, \h17BD>>, <<\h17C6, \h17C6>>,
     <<\h17C9, \h17D3>>, <<\h17D7, \h17D7>>, <<\h17DD, \h17DD>>, <<\h180B, \h180F>>,
     <<\h1843, \h1843>>, <<\h1885, \h1886>>, <<\h18A9, \h18A9>>, <<\h1920, \h1922>>,
     <<\h1927, \h1928>>, <<\h1932, \h1932>>, <<\h1939, \h193B>>, <<\h1A17, \h1A18>>,
     <<\h1A1B, \h1A1B>>, <<\h1A56, \h1A56>>, <<\h1A58, \h1A5E>>, <<\h1A60, \h1A60>>,
     <<\h1A62, \h1A62>>, <<\h1A65, \h1A6C>>, <<\h1A73, \h1A7C>>, <<\h1A7F, \h1A7F>>,
     <<\h1AA7, \h1AA7>>, <<\h1AB0, \h1ADD>>, <<\h1AE0, \h1AEB>>, <<\h1B00, \h1B03>>,
     <<\h1B34, \h1B34>>, <<\h1B36, \h1B3A>>, <<\h1B3C, \h1B3C>>, <<\h1B42, \h1B42>>,
     <<\h1B6B, \h1B73>>, <<\h1B80, \h1B81>>, <<\h1BA2, \h1BA5>>, <<\h1BA8, \h1BA9>>,
     <<\h1BAB, \h1BAD>>, <<\h1BE6, \h1BE6>>, <<\h1BE8, \h1BE9>>, <<\h1BED, \h1BED>>,
     <<\h1BEF, \h1BF1>>, <<\h1C2C, \h1C33>>, <<\h1C36, \h1C37>>, <<\h1C78, \h1C7D>>,
     <<\h1CD0, \h1CD2>>, <<\h1CD4, \h1CE0>>, <<\h1CE2, \h1CE8>>, <<\h1CED, \h1CED>>,
     <<\h1CF4, \h1CF4>>, <<\h1CF8, \h1CF9>>, <<\h1D2C, \h1D6A>>, <<\h1D78, \h1D78>>,
     <<\h1D9B, \h1DFF>>, <<\h1FBD, \h1FBD>>, <<\h1FBF, \h1FC1>>, <<\h1FCD, \h1FCF>>,
     <<\h1FDD, \h1FDF>>, <<\h1FED, \h1FEF>>, <<\h1FFD, \h1FFE>>, <<\h200B, \h200F>>,
     <<\h2018, \h2019>>, <<\h2024, \h2024>>, <<\h2027, \h2027>>, <<\h202A, \h202E>>,
     <<\h2060, \h2064>>, <<\h2066, \h206F>>, <<\h2071, \h2071>>, <<\h207F, \h207F>>,
     <<\h2090, \h209C>>, <<\h20D0, \h20F0>>, <<\h2C7C, \h2C7D>>, <<\h2CEF, \h2CF1>>,
     <<\h2D6F, \h2D6F>>, <<\h2D7F, \h2D7F>>, <<\h2DE0, \h2DFF>>, <<\h2E2F, \h2E2F>>,
     <<\h3005, \h3005>>, <<\h302A, \h302D>>, <<\h3031, \h3035>>, <<\h303B, \h303B>>,
     <<\h3099, \h309E>>, <<\h30FC, \h30FE>>, <<\hA015, \hA015>>, <<\hA4F8, \hA4FD>>,
     <<\hA60C, \hA60C>>, <<\hA66F, \hA672>>, <<\hA674, \hA67D>>, <<\hA67F, \hA67F>>,
     <<\hA69C, \hA69F>>, <<\hA6F0, \hA6F1>>, <<\hA700, \hA721>>, <<\hA770, \hA770>>,
     <<\hA788, \hA78A>>, <<\hA7F1, \hA7F4>>, <<\hA7F8, \hA7F9>>, <<\hA802, \hA802>>,
     <<\hA806, \hA806>>, <<\hA80B, \hA80B>>, <<\hA825, \hA826>>, <<\hA82C, \hA82C>>,
     <<\hA8C4, \hA8C5>>, <<\hA8E0, \hA8F1>>, <<\hA8FF, \hA8FF>>, <<\hA926, \hA92D>>,
     <<\hA947, \hA951>>, <<\hA980, \hA982>>, <<\hA9B3, \hA9B3>>, <<\hA9B6, \hA9B9>>,
     <<\hA9BC, \hA9BD>>, <<\hA9CF, \hA9CF>>, <<\hA9E5, \hA9E6>>, <<\hAA29, \hAA2E>>,
     <<\hAA31, \hAA32>>, <<\hAA35, \hAA36>>, <<\hAA43, \hAA43>>, <<\hAA4C, \hAA4C>>,
     <<\hAA70, \hAA70>>, <<\hAA7C, \hAA7C>>, <<\hAAB0, \hAAB0>>, <<\hAAB2, \hAAB4>>,
     <<\hAAB7, \hAAB8>>, <<\hAABE, \hAABF>>, <<\hAAC1, \hAAC1>>, <<\hAADD, \hAADD>>,
     <<\hAAEC, \hAAED>>, <<\hAAF3, \hAAF4>>, <<\hAAF6, \hAAF6>>, <<\hAB5B, \hAB5F>>,
     <<\hAB69, \hAB6B>>, <<\hABE5, \hABE5>>, <<\hABE8, \hABE8>>, <<\hABED, \hABED>>,
     <<\hFB1E, \hFB1E>>, <<\hFBB2, \hFBC2>>, <<\hFE00, \hFE0F>>, <<\hFE13, \hFE13>>,
     <<\hFE20, \hFE2F>>, <<\hFE52, \hFE52>>, <<\hFE55, \hFE55>>, <<\hFEFF, \hFEFF>>,
     <<\hFF07, \hFF07>>, <<\hFF0E, \hFF0E>>, <<\hFF1A, \hFF1A>>, <<\hFF3E, \hFF3E>>,
     <<\hFF40, \hFF40>>, <<\hFF70, \hFF70>>, <<\hFF9E, \hFF9F>>, <<\hFFE3, \hFFE3>>,
     <<\hFFF9, \hFFFB>>, <<\h101FD, \h101FD>>, <<\h102E0, \h102E0>>, <<\h10376, \h1037A>>,
     <<\h10780, \h10785>>, <<\h10787, \h107B0>>, <<\h107B2, \h107BA>>, <<\h10A01, \h10A03>>,
     <<\h10A05, \h10A06>>, <<\h10A0C, \h10A0F>>, <<\h10A38, \h10A3A>>, <<\h10A3F, \h10A3F>>,
     <<\h10AE5, \h10AE6>>, <<\h10D24, \h10D27>>, <<\h10D4E, \h10D4E>>, <<\h10D69, \h10D6D>>,
     <<\h10D6F, \h10D6F>>, <<\h10EAB, \h10EAC>>, <<\h10EC5, \h10EC5>>, <<\h10EFA, \h10EFF>>,
     <<\h10F46, \h10F50>>, <<\h10F82, \h10F85>>, <<\h11001, \h11001>>, <<\h11038, \h11046>>,
     <<\h11070, \h11070>>, <<\h11073, \h11074>>, <<\h1107F, \h11081>>, <<\h110B3, \h110B6>>,
     <<\h110B9, \h110BA>>, <<\h110BD, \h110BD>>, <<\h110C2, \h110C2>>, <<\h110CD, \h110CD>>,
     <<\h11100, \h11102>>, <<\h11127, \h1112B>>, <<\h1112D, \h11134>>, <<\h11173, \h11173>>,
     <<\h11180, \h11181>>, <<\h111B6, \h111BE>>, <<\h111C9, \h111CC>>, <<\h111CF, \h111CF>>,
     <<\h1122F, \h11231>>, <<\h11234, \h11234>>, <<\h11236, \h11237>>, <<\h1123E, \h1123E>>,
     <<\h11241, \h11241>>, <<\h112DF, \h112DF>>, <<\h112E3, \h112EA>>, <<\h11300, \h11301>>,
     <<\h1133B, \h1133C>>, <<\h11340, \h11340>>, <<\h11366, \h1136C>>, <<\h11370, \h11374>>,
     <<\h113BB, \h113C0>>, <<\h113CE, \h113CE>>, <<\h113D0, \h113D0>>, <<\h113D2, \h113D2>>,
     <<\h113E1, \h113E2>>, <<\h11438, \h1143F>>, <<\h11442, \h11444>>, <<\h11446, \h11446>>,
     <<\h1145E, \h1145E>>, <<\h114B3, \h114B8>>, <<\h114BA, \h114BA>>, <<\h114BF, \h114C0>>,
     <<\h114C2, \h114C3>>, <<\h115B2, \h115B5>>, <<\h115BC, \h115BD>>, <<\h115BF, \h115C0>>,
     <<\h115DC, \h115DD>>, <<\h11633, \h1163A>>, <<\h1163D, \h1163D>>, <<\h1163F, \h11640>>,
     <<\h116AB, \h116AB>>, <<\h116AD, \h116AD>>, <<\h116B0, \h116B5>>, <<\h116B7, \h116B7>>,
     <<\h1171D, \h1171D>>, <<\h1171F, \h1171F>>, <<\h11722, \h11725>>, <<\h11727, \h1172B>>,
     <<\h1182F, \h11837>>, <<\h11839, \h1183A>>, <<\h1193B, \h1193C>>, <<\h1193E, \h1193E>>,
     <<\h11943, \h11943>>, <<\h119D4, \h119D7>>, <<\h119DA, \h119DB>>, <<\h119E0, \h119E0>>,
     <<\h11A01, \h11A0A>>, <<\h11A33, \h11A38>>, <<\h11A3B, \h11A3E>>, <<\h11A47, \h11A47>>,
     <<\h11A51, \h11A56>>, <<\h11A59, \h11A5B>>, <<\h11A8A, \h11A96>>, <<\h11A98, \h11A99>>,
     <<\h11B60, \h11B60>>, <<\h11B62, \h11B64>>, <<\h11B66, \h11B66>>, <<\h11C30, \h11C36>>,
     <<\h11C38, \h11C3D>>, <<\h11C3F, \h11C3F>>, <<\h11C92, \h11CA7>>, <<\h11CAA, \h11CB0>>,
     <<\h11CB2, \h11CB3>>, <<\h11CB5, \h11CB6>>, <<\h11D31, \h11D36>>, <<\h11D3A, \h11D3A>>,
     <<\h11D3C, \h11D3D>>, <<\h11D3F, \h11D45>>, <<\h11D47, \h11D47>>, <<\h11D90, \h11D91>>,
     <<\h11D95, \h11D95>>, <<\h11D97, \h11D97>>, <<\h11DD9, \h11DD9>>, <<\h11EF3, \h11EF4>>,
     <<\h11F00, \h11F01>>, <<\h11F36, \h11F3A>>, <<\h11F40, \h11F40>>, <<\h11F42, \h11F42>>,
     <<\h11F5A, \h11F5A>>, <<\h13430, \h13440>>, <<\h13447, \h13455>>, <<\h1611E, \h16129>>,
     <<\h1612D, \h1612F>>, <<\h16AF0, \h16AF4>>, <<\h16B30, \h16B36>>, <<\h16B40, \h16B43>>,
     <<\h16D40, \h16D42>>, <<\h16D6B, \h16D6C>>, <<\h16F4F, \h16F4F>>, <<\h16F8F, \h16F9F>>,
     <<\h16FE0, \h16FE1>>, <<\h16FE3, \h16FE4>>, <<\h16FF2, \h16FF3>>, <<\h1AFF0, \h1AFF3>>,
     <<\h1AFF5, \h1AFFB>>, <<\h1AFFD, \h1AFFE>>, <<\h1BC9D, \h1BC9E>>, <<\h1BCA0, \h1BCA3>>,
     <<\h1CF00, \h1CF2D>>, <<\h1CF30, \h1CF46>>, <<\h1D167, \h1D169>>, <<\h1D173, \h1D182>>,
     <<\h1D185, \h1D18B>>, <<\h1D1AA, \h1D1AD>>, <<\h1D242, \h1D244>>, <<\h1DA00, \h1DA36>>,
     <<\h1DA3B, \h1DA6C>>, <<\h1DA75, \h1DA75>>, <<\h1DA84, \h1DA84>>, <<\h1DA9B, \h1DA9F>>,
     <<\h1DAA1, \h1DAAF>>, <<\h1E000, \h1E006>>, <<\h1E008, \h1E018>>, <<\h1E01B, \h1E021>>,
     <<\h1E023, \h1E024>>, <<\h1E026, \h1E02A>>, <<\h1E030, \h1E06D>>, <<\h1E08F, \h1E08F>>,
     <<\h1E130, \h1E13D>>, <<\h1E2AE, \h1E2AE>>, <<\h1E2EC, \h1E2EF>>, <<\h1E4EB, \h1E4EF>>,
     <<\h1E5EE, \h1E5EF>>, <<\h1E6E3, \h1E6E3>>, <<\h1E6E6, \h1E6E6>>, <<\h1E6EE, \h1E6EF>>,
     <<\h1E6F5, \h1E6F5>>, <<\h1E6FF, \h1E6FF>>, <<\h1E8D0, \h1E8D6>>, <<\h1E944, \h1E94B>>,
     <<\h1F3FB, \h1F3FF>>, <<\hE0001, \hE0001>>, <<\hE0020, \hE007F>>, <<\hE0100, \hE01EF>>}

\* the Cased code points that are not Case_Ignorable, in ranges
CasedRanges ==
    {<<\h0041, \h005A>>, <<\h0061, \h007A>>, <<\h00AA, \h00AA>>, <<\h00B5, \h00B5>>,
     <<\h00BA, \h00BA>>, <<\h00C0, \h00D6>>, <<\h00D8, \h00F6>>, <<\h00F8, \h01BA>>,
     <<\h01BC, \h01BF>>, <<\h01C4, \h0293>>, <<\h0296, \h02AF>>, <<\h0370, \h0373>>,
     <<\h0376, \h0377>>, <<\h037B, \h037D>>, <<\h037F, \h037F>>, <<\h0386, \h0386>>,
     <<\h0388, \h038A>>, <<\h038C, \h038C>>, <<\h038E, \h03A1>>, <<\h03A3, \h03F5>>,
     <<\h03F7, \h0481>>, <<\h048A, \h052F>>, <<\h0531, \h0556>>, <<\h0560, \h0588>>,
     <<\h10A0, \h10C5>>, <<\h10C7, \h10C7>>, <<\h10CD, \h10CD>>, <<\h10D0, \h10FA>>,
     <<\h10FD, \h10FF>>, <<\h13A0, \h13F5>>, <<\h13F8, \h13FD>>, <<\h1C80, \h1C8A>>,
     <<\h1C90, \h1CBA>>, <<\h1CBD, \h1CBF>>, <<\h1D00, \h1D2B>>, <<\h1D6B, \h1D77>>,
     <<\h1D79, \h1D9A>>, <<\h1E00, \h1F15>>, <<\h1F18, \h1F1D>>, <<\h1F20, \h1F45>>,
     <<\h1F48, \h1F4D>>, <<\h1F50, \h1F57>>, <<\h1F59, \h1F59>>, <<\h1F5B, \h1F5B>>,
     <<\h1F5D, \h1F5D>>, <<\h1F5F, \h1F7D>>, <<\h1F80, \h1FB4>>, <<\h1FB6, \h1FBC>>,
     <<\h1FBE, \h1FBE>>, <<\h1FC2, \h1FC4>>, <<\h1FC6, \h1FCC>>, <<\h1FD0, \h1FD3>>,
     <<\h1FD6, \h1FDB>>, <<\h1FE0, \h1FEC>>, <<\h1FF2, \h1FF4>>, <<\h1FF6, \h1FFC>>,
     <<\h2102, \h2102>>, <<\h2107, \h2107>>, <<\h210A, \h2113>>, <<\h2115, \h2115>>,
     <<\h2119, \h211D>>, <<\h2124, \h2124>>, <<\h2126, \h2126>>, <<\h2128, \h2128>>,
     <<\h212A, \h212D>>, <<\h212F, \h2134>>, <<\h2139, \h2139>>, <<\h213C, \h213F>>,
     <<\h2145, \h2149>>, <<\h214E, \h214E>>, <<\h2160, \h217F>>, <<\h2183, \h2184>>,
     <<\h24B6, \h24E9>>, <<\h2C00, \h2C7B>>, <<\h2C7E, \h2CE4>>, <<\h2CEB, \h2CEE>>,
     <<\h2CF2, \h2CF3>>, <<\h2D00, \h2D25>>, <<\h2D27, \h2D27>>, <<\h2D2D, \h2D2D>>,
     <<\hA640, \hA66D>>, <<\hA680, \hA69B>>, <<\hA722, \hA76F>>, <<\hA771, \hA787>>,
     <<\hA78B, \hA78E>>, <<\hA790, \hA7DC>>, <<\hA7F5, \hA7F6>>, <<\hA7FA, \hA7FA>>,
     <<\hAB30, \hAB5A>>, <<\hAB60, \hAB68>>, <<\hAB70, \hABBF>>, <<\hFB00, \hFB06>>,
     <<\hFB13, \hFB17>>, <<\hFF21, \hFF3A>>, <<\hFF41, \hFF5A>>, <<\h10400, \h1044F>>,
     <<\h104B0, \h104D3>>, <<\h104D8, \h104FB>>, <<\h10570, \h1057A>>, <<\h1057C, \h1058A>>,
     <<\h1058C, \h10592>>, <<\h10594, \h10595>>, <<\h10597, \h105A1>>, <<\h105A3, \h105B1>>,
     <<\h105B3, \h105B9>>, <<\h105BB, \h105BC>>, <<\h10C80, \h10CB2>>, <<\h10CC0, \h10CF2>>,
     <<\h10D50, \h10D65>>, <<\h10D70, \h10D85>>, <<\h118A0, \h118DF>>, <<\h16E40, \h16E7F>>,
     <<\h16EA0, \h16EB8>>, <<\h16EBB, \h16ED3>>, <<\h1D400, \h1D454>>, <<\h1D456, \h1D49C>>,
     <<\h1D49E, \h1D49F>>, <<\h1D4A2, \h1D4A2>>, <<\h1D4A5, \h1D4A6>>, <<\h1D4A9, \h1D4AC>>,
     <<\h1D4AE, \h1D4B9>>, <<\h1D4BB, \h1D4BB>>, <<\h1D4BD, \h1D4C3>>, <<\h1D4C5, \h1D505>>,
     <<\h1D507, \h1D50A>>, <<\h1D50D, \h1D514>>, <<\h1D516, \h1D51C>>, <<\h1D51E, \h1D539>>,
     <<\h1D53B, \h1D53E>>, <<\h1D540, \h1D544>>, <<\h1D546, \h1D546>>, <<\h1D54A, \h1D550>>,
     <<\h1D552, \h1D6A5>>, <<\h1D6A8, \h1D6C0>>, <<\h1D6C2, \h1D6DA>>, <<\h1D6DC, \h1D6FA>>,
     <<\h1D6FC, \h1D714>>, <<\h1D716, \h1D734>>, <<\h1D736, \h1D74E>>, <<\h1D750, \h1D76E>>,
     <<\h1D770, \h1D788>>, <<\h1D78A, \h1D7A8>>, <<\h1D7AA, \h1D7C2>>, <<\h1D7C4, \h1D7CB>>,
     <<\h1DF00, \h1DF09>>, <<\h1DF0B, \h1DF1E>>, <<\h1DF25, \h1DF2A>>, <<\h1E900, \h1E943>>,
     <<\h1F130, \h1F149>>, <<\h1F150, \h1F169>>, <<\h1F170, \h1F189>>}

codePointsOf(ranges) == UNION {{fromCodePoint(n) : n \in r[1]..r[2]} : r \in ranges}

CaseIgnorable == codePointsOf(CaseIgnorableRanges)

CasedLetters == codePointsOf(CasedRanges)

\* the simple case mappings as a function of the code point
lowerCaseOf ==
    LET mappings ==
            UNION {{<<fromCodePoint(n), fromCodePoint(n + r[4])>> :
                        n \in {m \in r[1]..r[2] : (m - r[1]) % r[3] = 0}} : r \in LowerCaseRuns}
    IN  [cp \in {m[1] : m \in mappings} |-> (CHOOSE m \in mappings : m[1] = cp)[2]]

\* the code point that starts at position j of s, and the one that ends
\* there
codePointAt(s, j) ==
    IF j < Len(s) /\ s[j] \in HighSurrogates /\ s[j + 1] \in LowSurrogates
    THEN SubSeq(s, j, j + 1) ELSE <<s[j]>>

codePointBefore(s, j) ==
    IF j > 1 /\ s[j] \in LowSurrogates /\ s[j - 1] \in HighSurrogates
    THEN SubSeq(s, j - 1, j) ELSE <<s[j]>>

\* the condition Final_Sigma: a cased letter before the position, and none
\* after it, case-ignorable code points skipped on both sides
RECURSIVE casedBefore(_, _)
casedBefore(s, j) ==
    IF j < 1 THEN FALSE
    ELSE LET cp == codePointBefore(s, j)
         IN  IF cp \in CaseIgnorable THEN casedBefore(s, j - Len(cp))
             ELSE cp \in CasedLetters

RECURSIVE casedAfter(_, _)
casedAfter(s, j) ==
    IF j > Len(s) THEN FALSE
    ELSE LET cp == codePointAt(s, j)
         IN  IF cp \in CaseIgnorable THEN casedAfter(s, j + Len(cp))
             ELSE cp \in CasedLetters

isFinalSigma(s, j) == casedBefore(s, j - 1) /\ ~casedAfter(s, j + 1)

\* one code point lowered. SpecialCasing has two rules without a language:
\* the capital sigma, U+03A3, becomes the final sigma, U+03C2, where the
\* condition holds, and U+0130 becomes "i" and U+0307
lowerCodePoint(s, j) ==
    LET cp == codePointAt(s, j)
        simple == lowerCaseOf
    IN  IF cp = <<"U+03A3">> /\ isFinalSigma(s, j) THEN <<"U+03C2">>
        ELSE IF cp = <<"U+0130">> THEN <<"i", "U+0307">>
        ELSE IF cp \in DOMAIN simple THEN simple[cp]
        ELSE cp

RECURSIVE lowerFrom(_, _)
lowerFrom(s, j) ==
    IF j > Len(s) THEN <<>>
    ELSE LET cp == codePointAt(s, j)
         IN  lowerCodePoint(s, j) \o lowerFrom(s, j + Len(cp))

\* s.toLowerCase()
toLowerCase(s) == lowerFrom(s, 1)

(***************************************************************************)
(* Map: a sequence of [k, v] records, in insertion order.                  *)
(***************************************************************************)
MapHas(m, key) == \E n \in 1..Len(m) : m[n].k = key

MapGet(m, key) == m[CHOOSE n \in 1..Len(m) : m[n].k = key].v

\* set() on a key the map holds replaces its value in place
MapSet(m, key, val) ==
    IF MapHas(m, key)
    THEN [n \in 1..Len(m) |-> IF m[n].k = key THEN [k |-> key, v |-> val] ELSE m[n]]
    ELSE Append(m, [k |-> key, v |-> val])

MapKeys(m) == [n \in 1..Len(m) |-> m[n].k]

\* new Map(pairs): set() of each pair in order, so the last of equal keys wins
RECURSIVE MapFrom(_)
MapFrom(pairs) ==
    IF pairs = <<>> THEN <<>>
    ELSE MapSet(MapFrom(SubSeq(pairs, 1, Len(pairs) - 1)),
                pairs[Len(pairs)].k, pairs[Len(pairs)].v)

(***************************************************************************)
(* path.resolve and the file system, as parseEnvFile sees them.            *)
(***************************************************************************)
\* process.cwd()
Cwd == <<"/", "w">>

\* the segments of a path from left to right: an empty segment and "." are
\* dropped, ".." drops the segment before it, if there is one
RECURSIVE normalizeSegments(_)
normalizeSegments(segs) ==
    IF segs = <<>> THEN <<>>
    ELSE LET before == normalizeSegments(SubSeq(segs, 1, Len(segs) - 1))
             seg == segs[Len(segs)]
         IN  IF seg = <<>> \/ seg = <<".">> THEN before
             ELSE IF seg = <<".", ".">>
                  THEN (IF before = <<>> THEN <<>> ELSE SubSeq(before, 1, Len(before) - 1))
             ELSE Append(before, seg)

\* path.resolve(filePath) on a POSIX system: a relative path is taken from
\* the working directory, and the result is normalised, "/" for no segment
resolve(p) ==
    LET from == IF startsWith(p, <<"/">>) THEN p ELSE Cwd \o <<"/">> \o p
    IN  <<"/">> \o join(normalizeSegments(split(from, "/")), <<"/">>)

\* what the path names: nothing, a readable file, or something that exists
\* and that readFileSync cannot read (a directory, a file without permission)
FileStates == {"missing", "file", "unreadable"}

\* fs.existsSync
existsSync(state) == state # "missing"

(***************************************************************************)
(* The diagnostics' messages.                                              *)
(***************************************************************************)
FileNotFoundText ==
    <<"F","i","l","e"," ","n","o","t"," ","f","o","u","n","d",":"," ">>

InvalidSyntaxText ==
    <<"I","n","v","a","l","i","d"," ","s","y","n","t","a","x",":"," ","\"">>

WhitespaceText ==
    <<"W","h","i","t","e","s","p","a","c","e"," ","i","n"," ","v","a","r","i",
      "a","b","l","e"," ","n","a","m","e",":"," ","\"">>

DuplicateText ==
    <<"D","u","p","l","i","c","a","t","e"," ","v","a","r","i","a","b","l","e",
      ":"," ">>

AlsoDefinedText ==
    <<" ","(","a","l","s","o"," ","d","e","f","i","n","e","d"," ","o","n"," ",
      "l","i","n","e">>

\* the characters of an unparsable line quoted in its diagnostic
InvalidSyntaxMaxLen == 50

fileNotFoundMessage(path) == FileNotFoundText \o path

invalidSyntaxMessage(trimmedLine) ==
    InvalidSyntaxText \o substring(trimmedLine, 0, InvalidSyntaxMaxLen)
        \o (IF Len(trimmedLine) > InvalidSyntaxMaxLen THEN <<".", ".", ".">> ELSE <<>>)
        \o <<"\"">>

whitespaceMessage(rawKey) == WhitespaceText \o rawKey \o <<"\"">>

duplicateMessage(key, lineNumbers) ==
    DuplicateText \o key \o AlsoDefinedText
        \o (IF Len(lineNumbers) > 2 THEN <<"s">> ELSE <<>>)
        \o <<" ">>
        \o join([n \in 1..(Len(lineNumbers) - 1) |-> numberToString(lineNumbers[n])],
                <<",", " ">>)
        \o <<")">>

(***************************************************************************)
(* parseValue                                                              *)
(***************************************************************************)
\* an absent optional field
Undefined == "undefined"

unescapeQuotesOnly(value) == replaceAll(value, <<"\\", "\"">>, <<"\"">>)

unescapeDoubleQuoted(value) ==
    replaceAll(replaceAll(replaceAll(value, <<"\\", "\"">>, <<"\"">>),
                          <<"\\", "n">>, <<"\n">>),
               <<"\\", "t">>, <<"\t">>)

commentIndexOfHash(trimmed) == indexOf(trimmed, <<"#">>)

\* trimmed.indexOf(' #')
commentIndexOf(trimmed) == indexOf(trimmed, <<" ", "#">>)

parseValue(rawValue) ==
    LET trimmed == trim(rawValue)
        commentIndex == commentIndexOf(trimmed)
    IN  IF \/ startsWith(trimmed, <<"\"">>) /\ endsWith(trimmed, <<"\"">>)
           \/ startsWith(trimmed, <<"'">>) /\ endsWith(trimmed, <<"'">>)
        THEN [value |-> IF trimmed[1] = "\""
                        THEN unescapeDoubleQuoted(sliceInner(trimmed))
                        ELSE sliceInner(trimmed),
              hasQuotes |-> TRUE,
              quoteChar |-> trimmed[1]]
        ELSE IF startsWith(trimmed, <<"\"">>) \/ startsWith(trimmed, <<"'">>)
        THEN [value |-> trimmed, hasQuotes |-> FALSE, quoteChar |-> Undefined]
        ELSE IF commentIndex # -1
        THEN [value |-> trim(substring(trimmed, 0, commentIndex)),
              hasQuotes |-> FALSE, quoteChar |-> Undefined]
        ELSE [value |-> trimmed, hasQuotes |-> FALSE, quoteChar |-> Undefined]

(***************************************************************************)
(* One iteration of parseEnvFile's loop over the lines.                    *)
(***************************************************************************)
\* line.match(/^([^=]+)=(.*)$/): the key is the text before the first "=",
\* one character at least; the value is the rest, which "." matches to the
\* end of the line only if no line terminator is in it
matchAssignmentEmptyKey(line) ==
    LET eq == indexOf(line, <<"=">>)
        rest == SubSeq(line, eq + 2, Len(line))
    IN  IF eq >= 0 /\ \A n \in 1..Len(rest) : rest[n] \notin LineTerminators
        THEN [matched |-> TRUE, rawKey |-> SubSeq(line, 1, eq), rawValue |-> rest]
        ELSE [matched |-> FALSE, rawKey |-> <<>>, rawValue |-> <<>>]

matchAssignment(line) ==
    LET eq == indexOf(line, <<"=">>)
        rest == SubSeq(line, eq + 2, Len(line))
    IN  IF eq >= 1 /\ \A n \in 1..Len(rest) : rest[n] \notin LineTerminators
        THEN [matched |-> TRUE, rawKey |-> SubSeq(line, 1, eq), rawValue |-> rest]
        ELSE [matched |-> FALSE, rawKey |-> <<>>, rawValue |-> <<>>]

isEmptyLine(line) == trim(line) = <<>>

isCommentLine(line) == ~isEmptyLine(line) /\ startsWith(trim(line), <<"#">>)

isInvalidLine(line) ==
    ~isEmptyLine(line) /\ ~isCommentLine(line) /\ ~matchAssignment(line).matched

isAssignmentLine(line) ==
    ~isEmptyLine(line) /\ ~isCommentLine(line) /\ matchAssignment(line).matched

\* the parser's locals: pendingComments, variables, keyLines, errors
EmptyLocals ==
    [pendingComments |-> <<>>, variables |-> <<>>, keyLines |-> <<>>, errors |-> <<>>]

skipEmptyLine(st) == [st EXCEPT !.pendingComments = <<>>]

collectComment(st, line) ==
    [st EXCEPT !.pendingComments = Append(@, trim(SubSeq(trim(line), 2, Len(trim(line)))))]

invalidLineKeepsComments(st, line, lineNumber) ==
    [st EXCEPT !.errors = Append(@, [line |-> lineNumber,
                                     message |-> invalidSyntaxMessage(trim(line)),
                                     type |-> "warning"])]

invalidLineSilent(st, line, lineNumber) == [st EXCEPT !.pendingComments = <<>>]

invalidLine(st, line, lineNumber) ==
    [st EXCEPT !.errors = Append(@, [line |-> lineNumber,
                                     message |-> invalidSyntaxMessage(trim(line)),
                                     type |-> "warning"]),
               !.pendingComments = <<>>]

\* variables.set(key, {...}) of an assignment line
storeVariableAppends(variables, key, entry) == Append(variables, [k |-> key, v |-> entry])

storeVariable(variables, key, entry) == MapSet(variables, key, entry)

\* the whitespace diagnostic of an assignment line, if any
whitespaceErrorsTrimmedKey(rawKey, lineNumber) ==
    IF rawKey # trim(rawKey)
    THEN <<[line |-> lineNumber, message |-> whitespaceMessage(trim(rawKey)),
            type |-> "warning"]>>
    ELSE <<>>

whitespaceErrors(rawKey, lineNumber) ==
    IF rawKey # trim(rawKey)
    THEN <<[line |-> lineNumber, message |-> whitespaceMessage(rawKey), type |-> "warning"]>>
    ELSE <<>>

\* keyLines after an assignment line
trackKeyLine(keyLines, key, lineNumber) ==
    IF MapHas(keyLines, key)
    THEN MapSet(keyLines, key, Append(MapGet(keyLines, key), lineNumber))
    ELSE MapSet(keyLines, key, <<lineNumber>>)

assignment(st, line, lineNumber) ==
    LET m == matchAssignment(line)
        key == trim(m.rawKey)
        parsed == parseValue(m.rawValue)
    IN  [pendingComments |-> <<>>,
         errors |-> st.errors \o whitespaceErrors(m.rawKey, lineNumber),
         keyLines |-> trackKeyLine(st.keyLines, key, lineNumber),
         variables |-> storeVariable(st.variables, key,
                          [key |-> key,
                           value |-> parsed.value,
                           line |-> lineNumber,
                           comments |-> st.pendingComments,
                           hasQuotes |-> parsed.hasQuotes,
                           quoteChar |-> parsed.quoteChar])]

parseLine(st, line, lineNumber) ==
    IF isEmptyLine(line) THEN skipEmptyLine(st)
    ELSE IF isCommentLine(line) THEN collectComment(st, line)
    ELSE IF isInvalidLine(line) THEN invalidLine(st, line, lineNumber)
    ELSE assignment(st, line, lineNumber)

(***************************************************************************)
(* The pass over keyLines that collects the duplicates.                    *)
(***************************************************************************)
isDuplicateFromOne(lineNumbers) == Len(lineNumbers) > 0

isDuplicate(lineNumbers) == Len(lineNumbers) > 1

RECURSIVE collectDuplicates(_)
collectDuplicates(keyLines) ==
    IF keyLines = <<>> THEN [duplicates |-> <<>>, errors |-> <<>>]
    ELSE LET rest == collectDuplicates(Tail(keyLines))
             e == Head(keyLines)
         IN  IF isDuplicate(e.v)
             THEN [duplicates |-> <<[key |-> e.k, lines |-> e.v]>> \o rest.duplicates,
                   errors |-> <<[line |-> e.v[Len(e.v)],
                                 message |-> duplicateMessage(e.k, e.v),
                                 type |-> "warning"]>> \o rest.errors]
             ELSE rest

(***************************************************************************)
(* parseEnvFile as a function of what the path names and the file's text.  *)
(***************************************************************************)
\* the loop of lines 30-96 over lines[1..n]
RECURSIVE parseLines(_, _)
parseLines(ls, n) ==
    IF n = 0 THEN EmptyLocals
    ELSE parseLine(parseLines(ls, n - 1), ls[n], n)

\* the returned document; Thrown when readFileSync throws
Thrown == "thrown"

parseEnvFile(state, path, text) ==
    IF ~existsSync(state)
    THEN [variables |-> <<>>,
          duplicates |-> <<>>,
          errors |-> <<[line |-> 0, message |-> fileNotFoundMessage(path), type |-> "error"]>>,
          filePath |-> resolve(path)]
    ELSE IF state = "unreadable" THEN Thrown
    ELSE LET ls == split(text, "\n")
             st == parseLines(ls, Len(ls))
         IN  [variables |-> st.variables,
              duplicates |-> collectDuplicates(st.keyLines).duplicates,
              errors |-> st.errors \o collectDuplicates(st.keyLines).errors,
              filePath |-> resolve(path)]

(***************************************************************************)
(* findCaseMismatches                                                      *)
(***************************************************************************)
\* new Map(keysB.map((k) => [k.toLowerCase(), k]))
lowerKeysMap(keys) == MapFrom([n \in 1..Len(keys) |-> [k |-> toLowerCase(keys[n]), v |-> keys[n]]])

\* the test of one key of keysA against the lookup: a string is truthy
\* unless it is empty
isCaseMismatch(lookup, keyA) ==
    /\ MapHas(lookup, toLowerCase(keyA))
    /\ MapGet(lookup, toLowerCase(keyA)) # <<>>
    /\ MapGet(lookup, toLowerCase(keyA)) # keyA

RECURSIVE caseMismatchLoop(_, _)
caseMismatchLoop(lookup, keys) ==
    IF keys = <<>> THEN <<>>
    ELSE (IF isCaseMismatch(lookup, Head(keys))
          THEN <<[keyA |-> Head(keys), keyB |-> MapGet(lookup, toLowerCase(Head(keys)))]>>
          ELSE <<>>) \o caseMismatchLoop(lookup, Tail(keys))

findCaseMismatches(a, b) == caseMismatchLoop(lowerKeysMap(b), a)

(***************************************************************************)
(* inferType                                                               *)
(***************************************************************************)
Range(s) == {s[k] : k \in 1..Len(s)}

AllIn(s, class) == \A k \in 1..Len(s) : s[k] \in class

DigitChars == Range(Digits)

LetterChars == Range(UpperCase) \cup Range(LowerCase)

\* /^-?\d+$/
isInteger(value) ==
    LET d == IF startsWith(value, <<"-">>) THEN Tail(value) ELSE value
    IN  d # <<>> /\ AllIn(d, DigitChars)

\* /^-?\d+\.\d+$/
isNumber(value) ==
    LET d == IF startsWith(value, <<"-">>) THEN Tail(value) ELSE value
        parts == split(d, ".")
    IN  /\ Len(parts) = 2
        /\ \A k \in 1..2 : parts[k] # <<>> /\ AllIn(parts[k], DigitChars)

\* /^https?:\/\//
isUrl(value) ==
    \/ startsWith(value, <<"h", "t", "t", "p", ":", "/", "/">>)
    \/ startsWith(value, <<"h", "t", "t", "p", "s", ":", "/", "/">>)

\* /^[a-zA-Z0-9._%+-]+@[a-zA-Z0-9.-]+\.[a-zA-Z]{2,}$/ : neither class holds
\* "@", and the last class holds no ".", so the "@" is the only one and the
\* "\." is the last "."
isEmail(value) ==
    LET parts == split(value, "@")
        local == parts[1]
        host == parts[2]
        labels == split(host, ".")
        tld == labels[Len(labels)]
        domain == SubSeq(host, 1, Len(host) - Len(tld) - 1)
    IN  /\ Len(parts) = 2
        /\ local # <<>>
        /\ AllIn(local, LetterChars \cup DigitChars \cup {".", "_", "%", "+", "-"})
        /\ Len(labels) >= 2
        /\ Len(tld) >= 2
        /\ AllIn(tld, LetterChars)
        /\ domain # <<>>
        /\ AllIn(domain, LetterChars \cup DigitChars \cup {".", "-"})

\* /^\d{1,3}\.\d{1,3}\.\d{1,3}\.\d{1,3}$/
isIpAddress(value) ==
    LET parts == split(value, ".")
    IN  /\ Len(parts) = 4
        /\ \A k \in 1..4 : Len(parts[k]) \in 1..3 /\ AllIn(parts[k], DigitChars)

inferTypeConnectionFirst(value) ==
    IF value = <<>> THEN "empty"
    ELSE IF value = <<"t", "r", "u", "e">> \/ value = <<"f", "a", "l", "s", "e">> THEN "boolean"
    ELSE IF isInteger(value) THEN "integer"
    ELSE IF isNumber(value) THEN "number"
    ELSE IF includes(value, <<":">>) /\ includes(value, <<"/", "/">>) THEN "connection string"
    ELSE IF isUrl(value) THEN "url"
    ELSE IF isEmail(value) THEN "email"
    ELSE IF isIpAddress(value) THEN "ip address"
    ELSE "string"
inferType(value) ==
    IF value = <<>> THEN "empty"
    ELSE IF value = <<"t", "r", "u", "e">> \/ value = <<"f", "a", "l", "s", "e">> THEN "boolean"
    ELSE IF isInteger(value) THEN "integer"
    ELSE IF isNumber(value) THEN "number"
    ELSE IF isUrl(value) THEN "url"
    ELSE IF isEmail(value) THEN "email"
    ELSE IF isIpAddress(value) THEN "ip address"
    ELSE IF includes(value, <<":">>) /\ includes(value, <<"/", "/">>) THEN "connection string"
    ELSE "string"

(***************************************************************************)
(* checkCommand: the CheckResult of two documents.                         *)
(***************************************************************************)
EmptyCheckResult ==
    [missing |-> <<>>, empty |-> <<>>, extra |-> <<>>, caseMismatches |-> <<>>,
     duplicates |-> <<>>, whitespaceIssues |-> <<>>, errors |-> 0, warnings |-> 0]

\* each push is followed by result.errors++
pushErrors(r, field, items) ==
    [r EXCEPT ![field] = @ \o items, !.errors = @ + Len(items)]

\* each push is followed by result.warnings++
pushWarningsUncounted(r, field, items) ==
    [r EXCEPT ![field] = @ \o items]
pushWarnings(r, field, items) ==
    [r EXCEPT ![field] = @ \o items, !.warnings = @ + Len(items)]

\* lines 181-188
caseMismatchPairs(envKeys, exampleKeys) ==
    LET found == findCaseMismatches(envKeys, exampleKeys)
    IN  [n \in 1..Len(found) |-> [envKey |-> found[n].keyA, exampleKey |-> found[n].keyB]]

\* lines 191-196
isMissingIgnoringPairs(envParsed, pairs, key) ==
    ~MapHas(envParsed.variables, key)
isMissing(envParsed, pairs, key) ==
    /\ ~MapHas(envParsed.variables, key)
    /\ key \notin {pairs[n].exampleKey : n \in 1..Len(pairs)}

\* lines 199-205: the entry is an object, so it is truthy when there is one
isEmptyIgnoringCase(envParsed, key) ==
    \E n \in 1..Len(envParsed.variables) :
        /\ toLowerCase(envParsed.variables[n].k) = toLowerCase(key)
        /\ envParsed.variables[n].v.value = <<>>
isEmpty(envParsed, key) ==
    /\ MapHas(envParsed.variables, key)
    /\ MapGet(envParsed.variables, key).value = <<>>

\* lines 208-213
isExtra(exampleParsed, pairs, key) ==
    /\ ~MapHas(exampleParsed.variables, key)
    /\ key \notin {pairs[n].envKey : n \in 1..Len(pairs)}

\* /variable name: "(.+?)"/ : the literal, then the fewest characters, at
\* least one and none a line terminator, that a double quote follows
VariableNameText ==
    <<"v","a","r","i","a","b","l","e"," ","n","a","m","e",":"," ","\"">>

\* the 0-based position of the quote that closes a match whose literal
\* starts at p, or -1
closingQuote(message, p) ==
    LET q == p + Len(VariableNameText)
        quotes == {c \in (q + 1)..(Len(message) - 1) : message[c + 1] = "\""}
        c0 == CHOOSE c \in quotes : \A d \in quotes : c <= d
    IN  IF quotes = {} THEN -1
        ELSE IF \E k \in q..(c0 - 1) : message[k + 1] \in LineTerminators THEN -1
        ELSE c0

\* message.match(...): <<match[1]>>, or <<>> for null
matchVariableName(message) ==
    LET starts == {p \in 0..(Len(message) - Len(VariableNameText)) :
                      /\ SubSeq(message, p + 1, p + Len(VariableNameText)) = VariableNameText
                      /\ closingQuote(message, p) # -1}
        p0 == CHOOSE p \in starts : \A r \in starts : p <= r
    IN  IF starts = {} THEN <<>>
        ELSE <<substring(message, p0 + Len(VariableNameText), closingQuote(message, p0))>>

LeadingTrailingText ==
    <<"l","e","a","d","i","n","g","/","t","r","a","i","l","i","n","g"," ",
      "w","h","i","t","e","s","p","a","c","e">>

\* lines 222-230
RECURSIVE whitespaceIssues(_)
whitespaceIssues(errs) ==
    IF errs = <<>> THEN <<>>
    ELSE LET message == Head(errs).message
             match == matchVariableName(message)
         IN  (IF includes(message, <<"W","h","i","t","e","s","p","a","c","e">>) /\ match # <<>>
              THEN <<[key |-> match[1], issue |-> LeadingTrailingText]>>
              ELSE <<>>) \o whitespaceIssues(Tail(errs))

\* lines 165-230
checkResult(exampleParsed, envParsed) ==
    LET exampleKeys == MapKeys(exampleParsed.variables)
        envKeys == MapKeys(envParsed.variables)
        pairs == caseMismatchPairs(envKeys, exampleKeys)
        Missing(key) == isMissing(envParsed, pairs, key)
        Empty(key) == isEmpty(envParsed, key)
        Extra(key) == isExtra(exampleParsed, pairs, key)
        r1 == pushErrors(EmptyCheckResult, "caseMismatches", pairs)
        r2 == pushErrors(r1, "missing", SelectSeq(exampleKeys, Missing))
        r3 == pushWarnings(r2, "empty", SelectSeq(exampleKeys, Empty))
        r4 == pushWarnings(r3, "extra", SelectSeq(envKeys, Extra))
        r5 == pushWarnings(r4, "duplicates", envParsed.duplicates)
    IN  pushWarnings(r5, "whitespaceIssues", whitespaceIssues(envParsed.errors))

\* lines 240-246: the exit code of a run that produced a CheckResult
checkExitCode(r, strict) ==
    IF r.errors > 0 \/ (strict /\ r.warnings > 0) THEN 1 ELSE 0

(***************************************************************************)
(* diffCommand: the DiffResult of two documents.                           *)
(***************************************************************************)
\* lines 47-51 and 54-58: the keys of one document the other does not hold
onlyInIgnoringCase(keys, otherKeys) ==
    LET Absent(key) ==
            toLowerCase(key) \notin {toLowerCase(otherKeys[n]) : n \in 1..Len(otherKeys)}
    IN  SelectSeq(keys, Absent)
onlyIn(keys, otherKeys) ==
    LET Absent(key) == key \notin Range(otherKeys)
    IN  SelectSeq(keys, Absent)

\* lines 62-70
valueDifferencesAllShared(parsedA, parsedB) ==
    LET keys == MapKeys(parsedA.variables)
        Shared(key) == MapHas(parsedB.variables, key)
        shared == SelectSeq(keys, Shared)
    IN  [n \in 1..Len(shared) |->
            [key |-> shared[n],
             valueA |-> MapGet(parsedA.variables, shared[n]).value,
             valueB |-> MapGet(parsedB.variables, shared[n]).value]]
valueDifferences(parsedA, parsedB) ==
    LET keys == MapKeys(parsedA.variables)
        Differs(key) ==
            /\ MapHas(parsedB.variables, key)
            /\ MapGet(parsedA.variables, key).value # MapGet(parsedB.variables, key).value
        differing == SelectSeq(keys, Differs)
    IN  [n \in 1..Len(differing) |->
            [key |-> differing[n],
             valueA |-> MapGet(parsedA.variables, differing[n]).value,
             valueB |-> MapGet(parsedB.variables, differing[n]).value]]

\* lines 36-71
diffResult(parsedA, parsedB, values) ==
    [onlyInA |-> onlyIn(MapKeys(parsedA.variables), MapKeys(parsedB.variables)),
     onlyInB |-> onlyIn(MapKeys(parsedB.variables), MapKeys(parsedA.variables)),
     valueDifferences |-> IF values THEN valueDifferences(parsedA, parsedB) ELSE <<>>]

\* lines 81 and 88
hasDifferences(r) ==
    r.onlyInA # <<>> \/ r.onlyInB # <<>> \/ r.valueDifferences # <<>>

SensitivePatterns ==
    {<<"p","a","s","s","w","o","r","d">>, <<"s","e","c","r","e","t">>,
     <<"k","e","y">>, <<"t","o","k","e","n">>, <<"a","u","t","h">>,
     <<"c","r","e","d","e","n","t","i","a","l">>, <<"p","r","i","v","a","t","e">>}

MaskShortLen == 4

MaskMaxStars == 20

\* '*'.repeat(n)
stars(n) == [k \in 1..n |-> "*"]

\* maskSensitive, lines 134-144
maskSensitive(key, value) ==
    IF \E pattern \in SensitivePatterns : includes(toLowerCase(key), pattern)
    THEN IF Len(value) <= MaskShortLen THEN <<"*", "*", "*", "*">>
         ELSE substring(value, 0, 2)
                  \o stars(IF Len(value) - 4 < MaskMaxStars
                           THEN Len(value) - 4 ELSE MaskMaxStars)
                  \o SubSeq(value, Len(value) - 1, Len(value))
    ELSE value

\* what printDiffResults shows of a result: the keys on either side and,
\* under --values, the differing values as maskSensitive renders them
printDiffResults(r, values) ==
    [stream |-> "text",
     kind |-> IF hasDifferences(r) THEN "differences" ELSE "identical",
     onlyInA |-> r.onlyInA,
     onlyInB |-> r.onlyInB,
     valueDifferences |->
         IF values
         THEN [n \in 1..Len(r.valueDifferences) |->
                  [key |-> r.valueDifferences[n].key,
                   valueA |-> maskSensitive(r.valueDifferences[n].key,
                                            r.valueDifferences[n].valueA),
                   valueB |-> maskSensitive(r.valueDifferences[n].key,
                                            r.valueDifferences[n].valueB)]]
         ELSE <<>>]

(***************************************************************************)
(* explainCommand: the ExplainResult of a document and a name.  A field    *)
(* that is never assigned is no field of the record.                       *)
(***************************************************************************)
\* line 31: <<the entry>>, or <<>> for undefined
lookupIgnoringCase(doc, name) ==
    LET hits == {n \in 1..Len(doc.variables) :
                    toLowerCase(doc.variables[n].k) = toLowerCase(name)}
    IN  IF hits = {} THEN <<>>
        ELSE <<doc.variables[CHOOSE n \in hits : \A m \in hits : n <= m].v>>
lookup(doc, name) ==
    IF MapHas(doc.variables, name) THEN <<MapGet(doc.variables, name)>> ELSE <<>>

\* lines 34-48: an entry is an object, so !!variable is true when there is one
explainResultFirstComment(doc, name) ==
    LET variable == lookup(doc, name)
    IN  IF variable = <<>> THEN [variable |-> name, found |-> FALSE]
        ELSE IF Len(variable[1].comments) > 0
        THEN [variable |-> name,
              found |-> TRUE,
              exampleValue |-> variable[1].value,
              inferredType |-> inferType(variable[1].value),
              comments |-> variable[1].comments,
              purpose |-> variable[1].comments[1]]
        ELSE [variable |-> name,
              found |-> TRUE,
              exampleValue |-> variable[1].value,
              inferredType |-> inferType(variable[1].value),
              comments |-> variable[1].comments]
explainResult(doc, name) ==
    LET variable == lookup(doc, name)
    IN  IF variable = <<>> THEN [variable |-> name, found |-> FALSE]
        ELSE IF Len(variable[1].comments) > 0
        THEN [variable |-> name,
              found |-> TRUE,
              exampleValue |-> variable[1].value,
              inferredType |-> inferType(variable[1].value),
              comments |-> variable[1].comments,
              purpose |-> join(variable[1].comments, <<" ">>)]
        ELSE [variable |-> name,
              found |-> TRUE,
              exampleValue |-> variable[1].value,
              inferredType |-> inferType(variable[1].value),
              comments |-> variable[1].comments]

\* what printExplainResult shows of a result, lines 61-104
printExplainResult(r) ==
    IF ~r.found
    THEN [stream |-> "text", kind |-> "not-found", variable |-> r.variable]
    ELSE [stream |-> "text",
          kind |-> "explanation",
          variable |-> r.variable,
          purpose |-> IF "purpose" \in DOMAIN r /\ r.purpose # <<>>
                      THEN <<r.purpose>> ELSE <<>>,
          inferredType |-> r.inferredType,
          exampleValue |-> r.exampleValue,
          documentation |-> IF Len(r.comments) > 1 THEN r.comments ELSE <<>>]

\* outputJSON(data): the data as it is, on one console.log
outputJSON(data) == [stream |-> "json", data |-> data]

\* error(), warning() and the console.log lines of a failure: text for a
\* reader, whatever the flags
textLine(kind, about) == [stream |-> "text", kind |-> kind, about |-> about]

\* printResults, lines 249-312: the lists and the two counters
printResults(r) == [stream |-> "text", kind |-> "report", data |-> r]

\* the error-severity diagnostics of a document
errorDiagnostics(doc) ==
    LET IsError(e) == e.type = "error"
    IN  SelectSeq(doc.errors, IsError)

(***************************************************************************)
(* The inputs.                                                             *)
(***************************************************************************)
SeqsUpTo(S, n) == UNION {[1..k -> S] : k \in 0..n}

\* the paths parseEnvFile is called with: a relative and an absolute one
Paths == {<<"e">>, <<"/", "e">>}

\* files of whole lines
RawKeys == {<<"A">>, <<" ", "A">>, <<"A", " ">>, <<"B">>}

RawValues == {<<>>, <<"1">>}

AssignmentLines == {k \o <<"=">> \o v : k \in RawKeys, v \in RawValues}

CommentLines == {<<"#", "c">>, <<" ", "#", " ", "d", " ">>}

EmptyLines == {<<>>}

InvalidLines == {<<"x">>, <<"A", "=", "1", "\r">>}

LineSet == AssignmentLines \cup CommentLines \cup EmptyLines \cup InvalidLines

LineFiles == {join(ls, <<"\n">>) : ls \in SeqsUpTo(LineSet, MaxLines) \ {<<>>}}

\* files drawn character by character
ContentAlphabet == {"A", "=", " ", "#", "\n", "\r"}

CharFiles == SeqsUpTo(ContentAlphabet, MaxContentLen)

\* one-line files K=<raw value>, the raw value drawn character by character
ValueAlphabet == {"\"", "'", "\\", "n", "t", " ", "#"}

ValueFiles == {<<"K", "=">> \o v : v \in SeqsUpTo(ValueAlphabet, MaxValueLen)}

\* the key lists handed to findCaseMismatches
KeySet == {<<"a">>, <<"A">>, <<"b">>, <<"a", "B">>}

KeyLists == SeqsUpTo(KeySet, MaxKeys)

\* the files the commands run on: up to MaxCmdLines lines of a few kinds
CheckLineSet == {<<"A", "=", "1">>, <<"A", "=">>, <<"a", "=", "1">>, <<" ", "B", "=", "1">>}

DiffLineSet ==
    {<<"A", "=", "1">>, <<"a", "=", "1">>, <<"k", "e", "y", "=", "1">>,
     <<"k", "e", "y", "=", "1", "2", "3", "4", "5">>}

\* lines whose keys and text put the extraction of the white space issues to
\* the test: a key with a space before it, one that holds a double quote
\* too, and a line without "=" that reads like the warning
KeyLineSet ==
    {<<"A", "=", "1">>, <<" ", "A", "=", "1">>, <<" ", "A", "\"", "B", "=", "1">>,
     <<"W", "h", "i", "t", "e", "s", "p", "a", "c", "e", " ", "v", "a", "r", "i", "a", "b", "l", "e", " ", "n", "a", "m", "e", ":", " ", "\"", "x", "\"">>}

ExplainLineSet ==
    {<<"#", "c">>, <<>>, <<"A", "=", "1">>, <<"B", "=", "t", "r", "u", "e">>}

CmdFiles(lineSet) == {join(ls, <<"\n">>) : ls \in SeqsUpTo(lineSet, MaxCmdLines)}

\* what a path may name when a command starts
DiskEntriesOf(files) ==
    {[state |-> "missing", content |-> <<>>], [state |-> "unreadable", content |-> <<>>]}
        \cup {[state |-> "file", content |-> c] : c \in files}

DiskEntries(lineSet) == DiskEntriesOf(CmdFiles(lineSet))

ExplainFiles == {join(ls, <<"\n">>) : ls \in SeqsUpTo(ExplainLineSet, MaxExplainLines)}

\* the values handed to inferType: short ones drawn character by character,
\* and longer ones of each kind
TypeAlphabet == {"1", "-", ".", "a", "@", ":", "/"}

TypeSamples ==
    {<<"t","r","u","e">>, <<"f","a","l","s","e">>, <<"T","r","u","e">>, <<"0">>,
     <<"1","9","2",".","1","6","8",".","1",".","1">>, <<"1","1","1","1",".","1",".","1",".","1">>,
     <<"1",".","1",".","1">>,
     <<"h","t","t","p",":","/","/","a">>, <<"h","t","t","p","s",":","/","/","a">>,
     <<"h","t","t","p","x",":","/","/","a">>, <<"h","t","t","p",":","/","a">>,
     <<"a","@","a",".","a","a">>, <<"a","@","a",".","a">>, <<"a","@",".",".","a","a">>,
     <<"a","@","a","@","a",".","a","a">>, <<"a",":","/","/","a","@","a",".","a","a">>}

TypeValues == SeqsUpTo(TypeAlphabet, MaxTypeLen) \cup TypeSamples

\* the example file holds the one line K=<value>
TypeFiles == {<<"K", "=">> \o v : v \in TypeValues}

\* options.env || '.env' and options.example || '.env.example', no option given
EnvPath == <<".", "e", "n", "v">>

ExamplePath == <<".", "e", "n", "v", ".", "e", "x", "a", "m", "p", "l", "e">>

\* diff's two arguments
FileA == <<"a">>

FileB == <<"b">>

\* explain's argument
VarNames == {<<"A">>, <<"a">>, <<"B">>}

(***************************************************************************)
(* The state.                                                              *)
(***************************************************************************)
VARIABLES
    filePath,         \* parseEnvFile's argument
    fileState,        \* what the path names on disk
    content,          \* the text of the file, when it is one
    pc,               \* where parseEnvFile is: start, loop, done, thrown
    absolutePath,
    lines,
    i,                \* the loop index: lines[1..i] are processed
    pendingComments,
    variables,
    keyLines,
    errors,
    duplicates,
    keysA,            \* findCaseMismatches' arguments
    keysB,
    casePc,           \* where findCaseMismatches is: idle, start, loop, done
    lowerKeysB,
    caseIdx,          \* keysA[1..caseIdx] are processed
    mismatches,
    command,          \* the command that runs: none, check, diff, explain
    disk,             \* what each of the command's paths names when it starts
    vanished,         \* the paths whose file was removed while the command ran
    options,          \* the command's flags
    varName,          \* explain's argument
    cpc,              \* where the command is
    parsed,           \* the documents parseEnvFile returned, by path
    result,           \* <<the CheckResult, DiffResult or ExplainResult>>, <<>> before
    output,           \* what was written to the console, in order
    exitCode          \* <<the process's exit code>>, <<>> while it runs

parserVars ==
    <<filePath, fileState, content, pc, absolutePath, lines, i, pendingComments,
      variables, keyLines, errors, duplicates>>

caseVars == <<keysA, keysB, casePc, lowerKeysB, caseIdx, mismatches>>

cmdVars ==
    <<command, disk, vanished, options, varName, cpc, parsed, result, output, exitCode>>

vars == <<parserVars, caseVars, cmdVars>>

\* the locals as one record, and back
locals ==
    [pendingComments |-> pendingComments, variables |-> variables,
     keyLines |-> keyLines, errors |-> errors]

SetLocals(st) ==
    /\ pendingComments' = st.pendingComments
    /\ variables' = st.variables
    /\ keyLines' = st.keyLines
    /\ errors' = st.errors

CaseIdle ==
    /\ keysA = <<>>
    /\ keysB = <<>>
    /\ casePc = "idle"
    /\ lowerKeysB = <<>>
    /\ caseIdx = 0
    /\ mismatches = <<>>

\* no command runs
CmdIdle ==
    /\ command = "none"
    /\ disk = <<>>
    /\ vanished = {}
    /\ options = <<>>
    /\ varName = <<>>
    /\ cpc = "idle"
    /\ parsed = <<>>
    /\ result = <<>>
    /\ output = <<>>
    /\ exitCode = <<>>

\* parseEnvFile entered with a path, the file holding one of `files`
ParserInit(files) ==
    /\ filePath \in Paths
    /\ fileState \in FileStates
    /\ content \in (IF fileState = "file" THEN files ELSE {<<>>})
    /\ pc = "start"
    /\ absolutePath = resolve(filePath)
    /\ lines = <<>>
    /\ i = 0
    /\ pendingComments = <<>>
    /\ variables = <<>>
    /\ keyLines = <<>>
    /\ errors = <<>>
    /\ duplicates = <<>>
    /\ CaseIdle
    /\ CmdIdle

ParserIdle ==
    /\ filePath = <<>>
    /\ fileState = "missing"
    /\ content = <<>>
    /\ pc = "idle"
    /\ absolutePath = <<>>
    /\ lines = <<>>
    /\ i = 0
    /\ pendingComments = <<>>
    /\ variables = <<>>
    /\ keyLines = <<>>
    /\ errors = <<>>
    /\ duplicates = <<>>

(***************************************************************************)
(* parseEnvFile, step by step.                                             *)
(***************************************************************************)
\* lines 16-23: the early return for a path that does not exist
FileNotFound ==
    /\ pc = "start"
    /\ ~existsSync(fileState)
    /\ errors' = <<[line |-> 0, message |-> fileNotFoundMessage(filePath), type |-> "error"]>>
    /\ pc' = "done"
    /\ UNCHANGED <<filePath, fileState, content, absolutePath, lines, i,
                   pendingComments, variables, keyLines, duplicates, caseVars, cmdVars>>

\* line 25: readFileSync throws on what exists and is no readable file, and
\* nothing catches it
ReadThrows ==
    /\ pc = "start"
    /\ existsSync(fileState)
    /\ fileState = "unreadable"
    /\ pc' = "thrown"
    /\ UNCHANGED <<filePath, fileState, content, absolutePath, lines, i,
                   pendingComments, variables, keyLines, errors, duplicates, caseVars, cmdVars>>

\* lines 25-28
ReadFile ==
    /\ pc = "start"
    /\ existsSync(fileState)
    /\ fileState = "file"
    /\ lines' = split(content, "\n")
    /\ pendingComments' = <<>>
    /\ i' = 0
    /\ pc' = "loop"
    /\ UNCHANGED <<filePath, fileState, content, absolutePath, variables, keyLines,
                   errors, duplicates, caseVars, cmdVars>>

LoopFrame ==
    /\ i' = i + 1
    /\ UNCHANGED <<filePath, fileState, content, pc, absolutePath, lines, duplicates,
                   caseVars, cmdVars>>

\* lines 36-39
SkipEmptyLine ==
    /\ pc = "loop"
    /\ i < Len(lines)
    /\ isEmptyLine(lines[i + 1])
    /\ SetLocals(skipEmptyLine(locals))
    /\ LoopFrame

\* lines 42-45
CollectComment ==
    /\ pc = "loop"
    /\ i < Len(lines)
    /\ isCommentLine(lines[i + 1])
    /\ SetLocals(collectComment(locals, lines[i + 1]))
    /\ LoopFrame

\* lines 48-60
InvalidLine ==
    /\ pc = "loop"
    /\ i < Len(lines)
    /\ isInvalidLine(lines[i + 1])
    /\ SetLocals(invalidLine(locals, lines[i + 1], i + 1))
    /\ LoopFrame

\* lines 62-95
Assignment ==
    /\ pc = "loop"
    /\ i < Len(lines)
    /\ isAssignmentLine(lines[i + 1])
    /\ SetLocals(assignment(locals, lines[i + 1], i + 1))
    /\ LoopFrame

\* lines 98-115
CollectDuplicates ==
    /\ pc = "loop"
    /\ i = Len(lines)
    /\ duplicates' = collectDuplicates(keyLines).duplicates
    /\ errors' = errors \o collectDuplicates(keyLines).errors
    /\ pc' = "done"
    /\ UNCHANGED <<filePath, fileState, content, absolutePath, lines, i,
                   pendingComments, variables, keyLines, caseVars, cmdVars>>

Next ==
    \/ FileNotFound
    \/ ReadThrows
    \/ ReadFile
    \/ SkipEmptyLine
    \/ CollectComment
    \/ InvalidLine
    \/ Assignment
    \/ CollectDuplicates

\* files of whole lines
Init == ParserInit(LineFiles)

Spec == Init /\ [][Next]_vars

\* files drawn character by character
InitChars == ParserInit(CharFiles)

SpecChars == InitChars /\ [][Next]_vars

\* one assignment line, its raw value drawn character by character
InitValue == ParserInit(ValueFiles)

\* a line K=<raw value> without a line terminator is an assignment line
NextValue ==
    \/ FileNotFound
    \/ ReadThrows
    \/ ReadFile
    \/ Assignment
    \/ CollectDuplicates

SpecValue == InitValue /\ [][NextValue]_vars

(***************************************************************************)
(* findCaseMismatches, step by step.                                       *)
(***************************************************************************)
InitCase ==
    /\ ParserIdle
    /\ keysA \in KeyLists
    /\ keysB \in KeyLists
    /\ casePc = "start"
    /\ lowerKeysB = <<>>
    /\ caseIdx = 0
    /\ mismatches = <<>>
    /\ CmdIdle

\* lines 180-181
BuildLookup ==
    /\ casePc = "start"
    /\ lowerKeysB' = lowerKeysMap(keysB)
    /\ mismatches' = <<>>
    /\ caseIdx' = 0
    /\ casePc' = "loop"
    /\ UNCHANGED <<keysA, keysB, parserVars, cmdVars>>

\* lines 183-189, a key that is pushed
RecordMismatch ==
    /\ casePc = "loop"
    /\ caseIdx < Len(keysA)
    /\ isCaseMismatch(lowerKeysB, keysA[caseIdx + 1])
    /\ mismatches' = Append(mismatches,
                            [keyA |-> keysA[caseIdx + 1],
                             keyB |-> MapGet(lowerKeysB, toLowerCase(keysA[caseIdx + 1]))])
    /\ caseIdx' = caseIdx + 1
    /\ UNCHANGED <<keysA, keysB, casePc, lowerKeysB, parserVars, cmdVars>>

\* lines 183-189, a key that is not
SkipKey ==
    /\ casePc = "loop"
    /\ caseIdx < Len(keysA)
    /\ ~isCaseMismatch(lowerKeysB, keysA[caseIdx + 1])
    /\ caseIdx' = caseIdx + 1
    /\ UNCHANGED <<keysA, keysB, casePc, lowerKeysB, mismatches, parserVars, cmdVars>>

\* line 191
ReturnMismatches ==
    /\ casePc = "loop"
    /\ caseIdx = Len(keysA)
    /\ casePc' = "done"
    /\ UNCHANGED <<keysA, keysB, lowerKeysB, caseIdx, mismatches, parserVars, cmdVars>>

NextCase ==
    \/ BuildLookup
    \/ RecordMismatch
    \/ SkipKey
    \/ ReturnMismatches

SpecCase == InitCase /\ [][NextCase]_vars

(***************************************************************************)
(* The commands' common steps.                                             *)
(***************************************************************************)
\* what a path names now
stateOf(p) == IF p \in vanished THEN "missing" ELSE disk[p].state

\* fileExists, lines 154-156 of the parser
fileExists(p) == existsSync(stateOf(p))

\* the paths a command hands to parseEnvFile, in the order of its calls
parseOrder ==
    IF command = "check" THEN <<ExamplePath, EnvPath>>
    ELSE IF command = "diff" THEN <<FileA, FileB>>
    ELSE <<ExamplePath>>

\* the calls of parseEnvFile that returned
parsedCount == Cardinality({k \in 1..Len(parseOrder) : parsed[parseOrder[k]] # <<>>})

\* the path of the call of parseEnvFile that runs
parsing == parseOrder[parsedCount + 1]

\* where the command is once this call has returned: at the next call, or
\* past the last one
afterParse == IF parsedCount + 1 = Len(parseOrder) THEN "parsed" ELSE "parse"

\* process.exit(code)
Exit(code) ==
    /\ exitCode' = <<code>>
    /\ cpc' = "exited"

\* an exception nothing catches ends the process with code 1 and a stack
\* trace
Crash ==
    /\ exitCode' = <<1>>
    /\ cpc' = "crashed"
    /\ output' = Append(output, textLine("uncaught", <<>>))

\* a command entered with its paths on a disk of `entries`
CmdInit(name, paths, entries, opts, names) ==
    /\ ParserIdle
    /\ CaseIdle
    /\ command = name
    /\ disk \in [paths -> entries]
    /\ vanished = {}
    /\ options \in opts
    /\ varName \in names
    /\ cpc = "start"
    /\ parsed = [p \in paths |-> <<>>]
    /\ result = <<>>
    /\ output = <<>>
    /\ exitCode = <<>>

\* the positions of a command with a call of the file system ahead
FsCallAhead == {"start", "second", "parse", "read"}

\* another process removes a file, or what else a path names, while the
\* command runs; a removal after the command's last call of the file system
\* shows in nothing the command does
FileVanishes ==
    /\ cpc \in FsCallAhead
    /\ \E p \in DOMAIN disk :
        /\ p \notin vanished
        /\ disk[p].state # "missing"
        /\ vanished' = vanished \cup {p}
    /\ UNCHANGED <<command, disk, options, varName, cpc, parsed, result, output, exitCode,
                   parserVars, caseVars>>

\* a command's call of parseEnvFile, lines 16-23 of the parser: existsSync
\* is false and the document of the missing file is returned
CmdFileNotFound ==
    /\ cpc = "parse"
    /\ ~existsSync(stateOf(parsing))
    /\ parsed' = [parsed EXCEPT ![parsing] = <<parseEnvFile("missing", parsing, <<>>)>>]
    /\ cpc' = afterParse
    /\ UNCHANGED <<command, disk, vanished, options, varName, result, output, exitCode,
                   parserVars, caseVars>>

\* line 16 of the parser: existsSync is true
CmdFileExists ==
    /\ cpc = "parse"
    /\ existsSync(stateOf(parsing))
    /\ cpc' = "read"
    /\ UNCHANGED <<command, disk, vanished, options, varName, parsed, result, output,
                   exitCode, parserVars, caseVars>>

\* line 25 of the parser: readFileSync throws, on what cannot be read and on
\* a file removed since existsSync, and no command catches it
CmdReadThrows ==
    /\ cpc = "read"
    /\ stateOf(parsing) # "file"
    /\ Crash
    /\ UNCHANGED <<command, disk, vanished, options, varName, parsed, result,
                   parserVars, caseVars>>

\* lines 25-115 of the parser: the file is read and its document returned
CmdReadFile ==
    /\ cpc = "read"
    /\ stateOf(parsing) = "file"
    /\ parsed' = [parsed EXCEPT ![parsing] = <<parseEnvFile("file", parsing, disk[parsing].content)>>]
    /\ cpc' = afterParse
    /\ UNCHANGED <<command, disk, vanished, options, varName, result, output, exitCode,
                   parserVars, caseVars>>

(***************************************************************************)
(* checkCommand, step by step.                                             *)
(***************************************************************************)
InitCheck ==
    CmdInit("check", {EnvPath, ExamplePath}, DiskEntries(CheckLineSet),
            [strict : BOOLEAN, json : BOOLEAN], {<<>>})

\* process.exit(options.strict ? 1 : 0), line 149
missingEnvExitCodeLenient(strict) == 0
missingEnvExitCode(strict) == IF strict THEN 1 ELSE 0

\* lines 136-139
CheckExampleMissing ==
    /\ command = "check"
    /\ cpc = "start"
    /\ ~fileExists(ExamplePath)
    /\ output' = Append(output, textLine("missing-example", ExamplePath))
    /\ Exit(1)
    /\ UNCHANGED <<command, disk, vanished, options, varName, parsed, result,
                   parserVars, caseVars>>

\* line 136, the example file there
CheckExampleExists ==
    /\ command = "check"
    /\ cpc = "start"
    /\ fileExists(ExamplePath)
    /\ cpc' = "second"
    /\ UNCHANGED <<command, disk, vanished, options, varName, parsed, result, output,
                   exitCode, parserVars, caseVars>>

\* lines 142-150
CheckEnvMissing ==
    /\ command = "check"
    /\ cpc = "second"
    /\ ~fileExists(EnvPath)
    /\ output' = Append(output,
                        IF options.json
                        THEN outputJSON([error |-> <<"M","i","s","s","i","n","g"," ">> \o EnvPath,
                                         warning |-> TRUE])
                        ELSE textLine("missing-env", EnvPath))
    /\ Exit(missingEnvExitCode(options.strict))
    /\ UNCHANGED <<command, disk, vanished, options, varName, parsed, result,
                   parserVars, caseVars>>

\* line 142, the env file there
CheckEnvExists ==
    /\ command = "check"
    /\ cpc = "second"
    /\ fileExists(EnvPath)
    /\ cpc' = "parse"
    /\ UNCHANGED <<command, disk, vanished, options, varName, parsed, result, output,
                   exitCode, parserVars, caseVars>>

\* error(`Failed to parse ...`) and one line for each error diagnostic
failedToParse(p, doc) ==
    <<textLine("failed-to-parse", p)>>
        \o [n \in 1..Len(errorDiagnostics(doc)) |->
               textLine("diagnostic", errorDiagnostics(doc)[n])]

\* lines 157-163: the example document's diagnostics are looked at, the env
\* document's are not
CheckParseError ==
    /\ command = "check"
    /\ cpc = "parsed"
    /\ errorDiagnostics(parsed[ExamplePath][1]) # <<>>
    /\ output' = output \o failedToParse(ExamplePath, parsed[ExamplePath][1])
    /\ Exit(1)
    /\ UNCHANGED <<command, disk, vanished, options, varName, parsed, result,
                   parserVars, caseVars>>

\* lines 165-230
CheckBuildResult ==
    /\ command = "check"
    /\ cpc = "parsed"
    /\ errorDiagnostics(parsed[ExamplePath][1]) = <<>>
    /\ result' = <<checkResult(parsed[ExamplePath][1], parsed[EnvPath][1])>>
    /\ cpc' = "built"
    /\ UNCHANGED <<command, disk, vanished, options, varName, parsed, output, exitCode,
                   parserVars, caseVars>>

\* lines 233-246
CheckReport ==
    /\ command = "check"
    /\ cpc = "built"
    /\ output' = Append(output,
                        IF options.json THEN outputJSON(result[1]) ELSE printResults(result[1]))
    /\ Exit(checkExitCode(result[1], options.strict))
    /\ UNCHANGED <<command, disk, vanished, options, varName, parsed, result,
                   parserVars, caseVars>>

\* check on files of the lines of KeyLineSet
InitCheckKeys ==
    CmdInit("check", {EnvPath, ExamplePath}, DiskEntries(KeyLineSet),
            [strict : BOOLEAN, json : BOOLEAN], {<<>>})

NextCheck ==
    \/ FileVanishes
    \/ CheckExampleMissing
    \/ CheckExampleExists
    \/ CheckEnvMissing
    \/ CheckEnvExists
    \/ CmdFileNotFound
    \/ CmdFileExists
    \/ CmdReadThrows
    \/ CmdReadFile
    \/ CheckParseError
    \/ CheckBuildResult
    \/ CheckReport

SpecCheck == InitCheck /\ [][NextCheck]_vars

SpecCheckKeys == InitCheckKeys /\ [][NextCheck]_vars

(***************************************************************************)
(* diffCommand, step by step.                                              *)
(***************************************************************************)
InitDiff ==
    CmdInit("diff", {FileA, FileB}, DiskEntries(DiffLineSet),
            [values : BOOLEAN, json : BOOLEAN], {<<>>})

\* lines 11-14
DiffFileAMissing ==
    /\ command = "diff"
    /\ cpc = "start"
    /\ ~fileExists(FileA)
    /\ output' = Append(output, textLine("file-not-found", FileA))
    /\ Exit(1)
    /\ UNCHANGED <<command, disk, vanished, options, varName, parsed, result,
                   parserVars, caseVars>>

\* line 11, the first file there
DiffFileAExists ==
    /\ command = "diff"
    /\ cpc = "start"
    /\ fileExists(FileA)
    /\ cpc' = "second"
    /\ UNCHANGED <<command, disk, vanished, options, varName, parsed, result, output,
                   exitCode, parserVars, caseVars>>

\* lines 16-19
DiffFileBMissing ==
    /\ command = "diff"
    /\ cpc = "second"
    /\ ~fileExists(FileB)
    /\ output' = Append(output, textLine("file-not-found", FileB))
    /\ Exit(1)
    /\ UNCHANGED <<command, disk, vanished, options, varName, parsed, result,
                   parserVars, caseVars>>

\* line 16, the second file there
DiffFileBExists ==
    /\ command = "diff"
    /\ cpc = "second"
    /\ fileExists(FileB)
    /\ cpc' = "parse"
    /\ UNCHANGED <<command, disk, vanished, options, varName, parsed, result, output,
                   exitCode, parserVars, caseVars>>

\* lines 26-34: the first of the two documents that carries an error
\* diagnostic ends the command
DiffParseError ==
    /\ command = "diff"
    /\ cpc = "parsed"
    /\ \/ /\ errorDiagnostics(parsed[FileA][1]) # <<>>
          /\ output' = output \o failedToParse(FileA, parsed[FileA][1])
       \/ /\ errorDiagnostics(parsed[FileA][1]) = <<>>
          /\ errorDiagnostics(parsed[FileB][1]) # <<>>
          /\ output' = output \o failedToParse(FileB, parsed[FileB][1])
    /\ Exit(1)
    /\ UNCHANGED <<command, disk, vanished, options, varName, parsed, result,
                   parserVars, caseVars>>

\* lines 36-71
DiffBuildResult ==
    /\ command = "diff"
    /\ cpc = "parsed"
    /\ errorDiagnostics(parsed[FileA][1]) = <<>>
    /\ errorDiagnostics(parsed[FileB][1]) = <<>>
    /\ result' = <<diffResult(parsed[FileA][1], parsed[FileB][1], options.values)>>
    /\ cpc' = "built"
    /\ UNCHANGED <<command, disk, vanished, options, varName, parsed, output, exitCode,
                   parserVars, caseVars>>

\* lines 74-82
DiffReport ==
    /\ command = "diff"
    /\ cpc = "built"
    /\ output' = Append(output,
                        IF options.json THEN outputJSON(result[1])
                        ELSE printDiffResults(result[1], options.values))
    /\ Exit(IF hasDifferences(result[1]) THEN 1 ELSE 0)
    /\ UNCHANGED <<command, disk, vanished, options, varName, parsed, result,
                   parserVars, caseVars>>

NextDiff ==
    \/ FileVanishes
    \/ DiffFileAMissing
    \/ DiffFileAExists
    \/ DiffFileBMissing
    \/ DiffFileBExists
    \/ CmdFileNotFound
    \/ CmdFileExists
    \/ CmdReadThrows
    \/ CmdReadFile
    \/ DiffParseError
    \/ DiffBuildResult
    \/ DiffReport

SpecDiff == InitDiff /\ [][NextDiff]_vars

(***************************************************************************)
(* explainCommand, step by step.                                           *)
(***************************************************************************)
InitExplain ==
    CmdInit("explain", {ExamplePath}, DiskEntriesOf(ExplainFiles),
            [json : BOOLEAN], VarNames)

\* lines 13-16
ExplainExampleMissing ==
    /\ command = "explain"
    /\ cpc = "start"
    /\ ~fileExists(ExamplePath)
    /\ output' = Append(output, textLine("file-not-found", ExamplePath))
    /\ Exit(1)
    /\ UNCHANGED <<command, disk, vanished, options, varName, parsed, result,
                   parserVars, caseVars>>

\* line 13, the file there
ExplainExampleExists ==
    /\ command = "explain"
    /\ cpc = "start"
    /\ fileExists(ExamplePath)
    /\ cpc' = "parse"
    /\ UNCHANGED <<command, disk, vanished, options, varName, parsed, result, output,
                   exitCode, parserVars, caseVars>>

\* lines 22-28
ExplainParseError ==
    /\ command = "explain"
    /\ cpc = "parsed"
    /\ errorDiagnostics(parsed[ExamplePath][1]) # <<>>
    /\ output' = output \o failedToParse(ExamplePath, parsed[ExamplePath][1])
    /\ Exit(1)
    /\ UNCHANGED <<command, disk, vanished, options, varName, parsed, result,
                   parserVars, caseVars>>

\* lines 31-48
ExplainBuildResult ==
    /\ command = "explain"
    /\ cpc = "parsed"
    /\ errorDiagnostics(parsed[ExamplePath][1]) = <<>>
    /\ result' = <<explainResult(parsed[ExamplePath][1], varName)>>
    /\ cpc' = "built"
    /\ UNCHANGED <<command, disk, vanished, options, varName, parsed, output, exitCode,
                   parserVars, caseVars>>

\* lines 51-58
ExplainReport ==
    /\ command = "explain"
    /\ cpc = "built"
    /\ output' = Append(output,
                        IF options.json THEN outputJSON(result[1])
                        ELSE printExplainResult(result[1]))
    /\ Exit(IF result[1].found THEN 0 ELSE 1)
    /\ UNCHANGED <<command, disk, vanished, options, varName, parsed, result,
                   parserVars, caseVars>>

\* explain K on a file K=<value>: inferType applied to each value
InitInfer ==
    CmdInit("explain", {ExamplePath}, DiskEntriesOf(TypeFiles), [json : BOOLEAN], {<<"K">>})

NextExplain ==
    \/ FileVanishes
    \/ ExplainExampleMissing
    \/ ExplainExampleExists
    \/ CmdFileNotFound
    \/ CmdFileExists
    \/ CmdReadThrows
    \/ CmdReadFile
    \/ ExplainParseError
    \/ ExplainBuildResult
    \/ ExplainReport

SpecExplain == InitExplain /\ [][NextExplain]_vars

SpecInfer == InitInfer /\ [][NextExplain]_vars

(***************************************************************************)
(* What the claims speak of, read off the file's lines.                    *)
(***************************************************************************)
\* parseEnvFile returned a document for a file it read
Parsed == pc = "done" /\ fileState = "file"

\* the key a line assigns: the text before its first "=", trimmed
AssignedKey(line) == trim(SubSeq(line, 1, indexOf(line, <<"=">>)))

\* the text after a line's first "="
AssignedRawValue(line) == SubSeq(line, indexOf(line, <<"=">>) + 2, Len(line))

\* the processed lines that assign `key`
AssignedLines(key) ==
    {n \in 1..i : isAssignmentLine(lines[n]) /\ AssignedKey(lines[n]) = key}

AssignedKeys == {AssignedKey(lines[n]) : n \in {m \in 1..i : isAssignmentLine(lines[m])}}

Max(S) == CHOOSE n \in S : \A m \in S : m <= n

Min(S) == CHOOSE n \in S : \A m \in S : n <= m

\* the elements of a set of numbers in increasing order
RECURSIVE Sorted(_)
Sorted(S) == IF S = {} THEN <<>> ELSE <<Min(S)>> \o Sorted(S \ {Min(S)})

\* a comment line's text: the leading "#" and the surrounding white space removed
CommentText(line) == trim(Tail(trim(line)))

\* the first line of the maximal run of comment lines that ends right above line n
RunStart(n) ==
    Min({j \in 1..n : \A m \in j..(n - 1) : isCommentLine(lines[m])})

CommentsAbove(n) ==
    [m \in 1..(n - RunStart(n)) |-> CommentText(lines[RunStart(n) + m - 1])]

\* how many diagnostics satisfy P
CountErrors(P(_)) == Cardinality({n \in 1..Len(errors) : P(errors[n])})

(***************************************************************************)
(* C1.  The parsed document holds at most one entry per key, and the entry *)
(* of a key assigned on several lines has the value, the line number and   *)
(* the comments of the final occurrence: comments above earlier            *)
(* occurrences are discarded, even when the final occurrence has none.     *)
(* Stated of the lines processed so far, so it holds throughout the loop.  *)
(***************************************************************************)
C1_LastOccurrenceWins ==
    (fileState = "file" /\ pc \in {"loop", "done"}) =>
        /\ \A m, n \in 1..Len(variables) : variables[m].k = variables[n].k => m = n
        /\ {variables[n].k : n \in 1..Len(variables)} = AssignedKeys
        /\ \A key \in AssignedKeys :
              LET last == Max(AssignedLines(key))
                  e == MapGet(variables, key)
              IN  /\ e.line = last
                  /\ e.value = parseValue(AssignedRawValue(lines[last])).value
                  /\ e.comments = CommentsAbove(last)

\* a key assigned twice, with a comment above the first occurrence only
C1_Witness ==
    /\ Parsed
    /\ \E key \in AssignedKeys :
          /\ Cardinality(AssignedLines(key)) >= 2
          /\ CommentsAbove(Min(AssignedLines(key))) # <<>>
          /\ MapGet(variables, key).comments = <<>>
          /\ MapGet(variables, key).value # parseValue(AssignedRawValue(lines[Min(AssignedLines(key))])).value

(***************************************************************************)
(* C2.  After parsing, duplicates lists exactly the keys assigned on two   *)
(* or more lines, each once, with all its assignment lines in strictly     *)
(* increasing order, the last being the entry's line; the diagnostics hold *)
(* exactly one duplicate warning per such key, naming every line but the   *)
(* last; a key assigned once appears in neither.                           *)
(***************************************************************************)
IsDuplicateWarning(e) == startsWith(e.message, DuplicateText)

C2_DuplicatesExact ==
    Parsed =>
        /\ \A m, n \in 1..Len(duplicates) : duplicates[m].key = duplicates[n].key => m = n
        /\ {duplicates[n].key : n \in 1..Len(duplicates)}
              = {key \in AssignedKeys : Cardinality(AssignedLines(key)) >= 2}
        /\ \A n \in 1..Len(duplicates) :
              LET d == duplicates[n]
              IN  /\ d.lines = Sorted(AssignedLines(d.key))
                  /\ \A a, b \in 1..Len(d.lines) : a < b => d.lines[a] < d.lines[b]
                  /\ d.lines[Len(d.lines)] = MapGet(variables, d.key).line
                  /\ Cardinality({m \in 1..Len(errors) :
                         errors[m] = [line |-> d.lines[Len(d.lines)],
                                      message |-> duplicateMessage(d.key,
                                                      Sorted(AssignedLines(d.key))),
                                      type |-> "warning"]}) = 1
        /\ CountErrors(IsDuplicateWarning) = Len(duplicates)

\* one key assigned twice and another assigned once
C2_Witness ==
    /\ Parsed
    /\ Len(duplicates) = 1
    /\ \E key \in AssignedKeys : Cardinality(AssignedLines(key)) = 1

(***************************************************************************)
(* C3.  An entry's comments are the maximal run of comment lines right     *)
(* above its assignment line, in file order, each without its leading "#"  *)
(* and surrounding white space; the pending-comment buffer is empty after  *)
(* every blank, invalid and assignment line, so comments that a blank or   *)
(* invalid line separates from the assignment are never attached.          *)
(***************************************************************************)
C3_CommentsContiguous ==
    (fileState = "file" /\ pc \in {"loop", "done"}) =>
        /\ \A n \in 1..Len(variables) :
              variables[n].v.comments = CommentsAbove(variables[n].v.line)
        /\ (i >= 1 /\ ~isCommentLine(lines[i])) => pendingComments = <<>>
        /\ \A n \in 1..Len(variables) :
              LET at == variables[n].v.line
              IN  (at >= 2 /\ ~isCommentLine(lines[at - 1])) => variables[n].v.comments = <<>>

\* a comment, then a blank or invalid line, then an assignment
C3_Witness ==
    /\ Parsed
    /\ Len(lines) = 3
    /\ isCommentLine(lines[1])
    /\ isEmptyLine(lines[2]) \/ isInvalidLine(lines[2])
    /\ \E n \in 1..Len(variables) :
          variables[n].v.line = 3 /\ variables[n].v.comments = <<>>

(***************************************************************************)
(* C4.  parseEnvFile never raises: for a path that is missing or cannot be *)
(* read it returns a document with no entries, no duplicates and exactly   *)
(* one diagnostic, of severity error, "File not found: <path>".            *)
(* The code returns that document for a missing path only; for a path that *)
(* exists and cannot be read, readFileSync throws out of parseEnvFile.     *)
(***************************************************************************)
C4_NeverRaises ==
    /\ pc # "thrown"
    /\ (pc = "done" /\ fileState # "file") =>
          /\ variables = <<>>
          /\ duplicates = <<>>
          /\ Len(errors) = 1
          /\ errors[1].type = "error"
          /\ errors[1].message = FileNotFoundText \o filePath

(***************************************************************************)
(* C5.  For a readable file the diagnostics are exactly one warning for    *)
(* each unparsable line, one for each assignment line whose raw key has    *)
(* leading or trailing white space and one for each key assigned more than *)
(* once; none has severity error.                                          *)
(***************************************************************************)
RawKeyOf(line) == SubSeq(line, 1, indexOf(line, <<"=">>))

HasOuterWhiteSpace(s) == s # <<>> /\ (s[1] \in WhiteSpace \/ s[Len(s)] \in WhiteSpace)

UnparsableLines == {n \in 1..i : isInvalidLine(lines[n])}

WhiteSpaceKeyLines ==
    {n \in 1..i : isAssignmentLine(lines[n]) /\ HasOuterWhiteSpace(RawKeyOf(lines[n]))}

RepeatedKeys == {key \in AssignedKeys : Cardinality(AssignedLines(key)) >= 2}

C5_DiagnosticsExact ==
    Parsed =>
        /\ \A n \in 1..Len(errors) : errors[n].type = "warning"
        /\ \A n \in 1..Len(lines) :
              /\ CountErrors(LAMBDA e : e.line = n /\ startsWith(e.message, InvalidSyntaxText))
                    = (IF n \in UnparsableLines THEN 1 ELSE 0)
              /\ CountErrors(LAMBDA e : e.line = n /\ startsWith(e.message, WhitespaceText))
                    = (IF n \in WhiteSpaceKeyLines THEN 1 ELSE 0)
        /\ \A key \in AssignedKeys :
              CountErrors(LAMBDA e : startsWith(e.message, DuplicateText \o key \o AlsoDefinedText))
                    = (IF key \in RepeatedKeys THEN 1 ELSE 0)
        /\ Len(errors) = Cardinality(UnparsableLines) + Cardinality(WhiteSpaceKeyLines)
                            + Cardinality(RepeatedKeys)

\* an unparsable line, a key with white space and a repeated key in one file
C5_Witness ==
    /\ Parsed
    /\ UnparsableLines # {}
    /\ WhiteSpaceKeyLines # {}
    /\ RepeatedKeys # {}
    /\ Len(errors) = 3

(***************************************************************************)
(* C6.  As claimed: a line whose trimmed form is not empty and does not    *)
(* start with "#" yields an "Invalid syntax" warning and no entry if and   *)
(* only if it holds no "="; every such line that holds "=" is split at its *)
(* first "=" and yields an entry.  Stated of the line just processed.      *)
(***************************************************************************)
JustProcessed == fileState = "file" /\ pc = "loop" /\ i >= 1

IsCandidateLine(line) == trim(line) # <<>> /\ trim(line)[1] # "#"

InvalidWarningAt(n) ==
    \E m \in 1..Len(errors) :
        /\ errors[m].line = n
        /\ errors[m].type = "warning"
        /\ startsWith(errors[m].message, InvalidSyntaxText)

EntryAt(n) == \E m \in 1..Len(variables) : variables[m].v.line = n

C6_InvalidIffNoEquals ==
    (JustProcessed /\ IsCandidateLine(lines[i])) =>
        /\ (InvalidWarningAt(i) /\ ~EntryAt(i)) <=> ~includes(lines[i], <<"=">>)
        /\ includes(lines[i], <<"=">>) =>
              /\ MapHas(variables, AssignedKey(lines[i]))
              /\ MapGet(variables, AssignedKey(lines[i])).line = i

(***************************************************************************)
(* C6, amended.  Such a line yields the warning and no entry if and only   *)
(* if it holds no "=", or nothing precedes its first "=", or a line        *)
(* terminator (a carriage return) follows its first "="; every other such  *)
(* line is split at its first "=" and yields an entry.                     *)
(***************************************************************************)
HasNoKeyValueForm(line) ==
    \/ ~includes(line, <<"=">>)
    \/ line[1] = "="
    \/ \E n \in 1..Len(line) :
          /\ line[n] \in LineTerminators
          /\ \E m \in 1..(n - 1) : line[m] = "="

C6_InvalidIffNoKeyValueForm ==
    (JustProcessed /\ IsCandidateLine(lines[i])) =>
        /\ (InvalidWarningAt(i) /\ ~EntryAt(i)) <=> HasNoKeyValueForm(lines[i])
        /\ ~HasNoKeyValueForm(lines[i]) =>
              /\ ~InvalidWarningAt(i)
              /\ MapHas(variables, AssignedKey(lines[i]))
              /\ MapGet(variables, AssignedKey(lines[i])).line = i
              /\ MapGet(variables, AssignedKey(lines[i])).value
                    = parseValue(AssignedRawValue(lines[i])).value

\* a line that holds "=" and is reported invalid, and one that is stored
C6_Witness ==
    /\ JustProcessed
    /\ IsCandidateLine(lines[i])
    /\ includes(lines[i], <<"=">>)
    /\ InvalidWarningAt(i)
    /\ i >= 2
    /\ EntryAt(i - 1)

(***************************************************************************)
(* C7.  A raw value whose trimmed form is wrapped in matching quotes is    *)
(* stored as the text between the outer quotes, with \", \n and \t         *)
(* unescaped for double quotes only, isQuoted true and quoteChar that      *)
(* quote; one that starts with a quote and does not end with the same one  *)
(* is stored as the trimmed text, unchanged, with isQuoted false.          *)
(* Checked on the files K=<raw value>.                                     *)
(***************************************************************************)
QuoteChars == {"\"", "'"}

\* the raw value of the file K=<raw value>, and what the parser stored for K
RawValueIn == SubSeq(content, 3, Len(content))

StoredK == MapGet(variables, <<"K">>)

Between(t) == [k \in 1..(Len(t) - 2) |-> t[k + 1]]

\* one pass from the left: a backslash with ", n or t after it is one character
RECURSIVE UnescapeOnePass(_)
UnescapeOnePass(s) ==
    IF s = <<>> THEN s
    ELSE IF Len(s) >= 2 /\ s[1] = "\\" /\ s[2] \in {"\"", "n", "t"}
         THEN <<CASE s[2] = "\"" -> "\"" [] s[2] = "n" -> "\n" [] s[2] = "t" -> "\t">>
                  \o UnescapeOnePass(SubSeq(s, 3, Len(s)))
         ELSE <<s[1]>> \o UnescapeOnePass(Tail(s))

C7_QuotedValues ==
    Parsed =>
        LET t == trim(RawValueIn)
        IN  /\ (t # <<>> /\ t[1] \in QuoteChars /\ t[Len(t)] = t[1]) =>
                  /\ StoredK.hasQuotes
                  /\ StoredK.quoteChar = t[1]
                  /\ StoredK.value
                        = (IF t[1] = "\"" THEN UnescapeOnePass(Between(t)) ELSE Between(t))
            /\ (t # <<>> /\ t[1] \in QuoteChars /\ t[Len(t)] # t[1]) =>
                  /\ ~StoredK.hasQuotes
                  /\ StoredK.value = t

\* a double-quoted value with an escape in it
C7_Witness ==
    /\ Parsed
    /\ LET t == trim(RawValueIn)
       IN  /\ Len(t) >= 4
           /\ t[1] = "\""
           /\ t[Len(t)] = "\""
           /\ StoredK.hasQuotes
           /\ StoredK.value # Between(t)

(***************************************************************************)
(* C8.  An unquoted raw value is stored as the trimmed text before the     *)
(* first " #" of its trimmed form, or as the whole trimmed form when it    *)
(* holds no " #"; "K=" and K= with only an inline comment after it still   *)
(* yield an entry for K ("K=" with the empty value).                       *)
(***************************************************************************)
HashAfterSpace(t) == {k \in 1..(Len(t) - 1) : t[k] = " " /\ t[k + 1] = "#"}

C8_UnquotedValues ==
    Parsed =>
        LET t == trim(RawValueIn)
        IN  /\ MapHas(variables, <<"K">>)
            /\ StoredK.key = <<"K">>
            /\ RawValueIn = <<>> => StoredK.value = <<>>
            /\ (t = <<>> \/ t[1] \notin QuoteChars) =>
                  StoredK.value
                     = (IF HashAfterSpace(t) = {} THEN t
                        ELSE trim(SubSeq(t, 1, Min(HashAfterSpace(t)) - 1)))

\* an unquoted value cut at its first " #", a second " #" after it
C8_Witness ==
    /\ Parsed
    /\ LET t == trim(RawValueIn)
       IN  /\ t # <<>>
           /\ t[1] \notin QuoteChars
           /\ Cardinality(HashAfterSpace(t)) >= 2
           /\ StoredK.value # <<>>
           /\ StoredK.value # t

(***************************************************************************)
(* C9.  Every assignment line is stored under its trimmed key, and a       *)
(* "Whitespace in variable name" warning with the untrimmed raw key is     *)
(* emitted for the line if and only if the raw key differs from its        *)
(* trimmed form.  Stated of the line just processed.                       *)
(***************************************************************************)
WhitespaceWarningsAt(n) ==
    {m \in 1..Len(errors) :
        errors[m].line = n /\ startsWith(errors[m].message, WhitespaceText)}

C9_TrimmedKeyAndWarning ==
    (JustProcessed /\ isAssignmentLine(lines[i])) =>
        LET raw == RawKeyOf(lines[i])
        IN  /\ MapHas(variables, trim(raw))
            /\ MapGet(variables, trim(raw)).key = trim(raw)
            /\ MapGet(variables, trim(raw)).line = i
            /\ ~HasOuterWhiteSpace(trim(raw))
            /\ raw # trim(raw) =>
                  /\ Cardinality(WhitespaceWarningsAt(i)) = 1
                  /\ \A m \in WhitespaceWarningsAt(i) :
                        errors[m] = [line |-> i,
                                     message |-> WhitespaceText \o raw \o <<"\"">>,
                                     type |-> "warning"]
            /\ raw = trim(raw) => WhitespaceWarningsAt(i) = {}

\* a raw key with white space after it, stored under the trimmed key
C9_Witness ==
    /\ JustProcessed
    /\ isAssignmentLine(lines[i])
    /\ RawKeyOf(lines[i]) # trim(RawKeyOf(lines[i]))
    /\ trim(RawKeyOf(lines[i])) # <<>>
    /\ RawKeyOf(lines[i])[Len(RawKeyOf(lines[i]))] \in WhiteSpace
    /\ WhitespaceWarningsAt(i) # {}

(***************************************************************************)
(* C10.  As claimed: findCaseMismatches never returns a pair whose keyA    *)
(* occurs with identical spelling in keysB, and every returned pair has    *)
(* keyA in keysA, keyB in keysB, the two equal ignoring case and different.*)
(***************************************************************************)
Elements(keys) == {keys[n] : n \in 1..Len(keys)}

EqualIgnoringCase(a, b) == toLowerCase(a) = toLowerCase(b)

ReturnedPairs == {mismatches[n] : n \in 1..Len(mismatches)}

C10_ExactMatchesExcluded ==
    casePc = "done" =>
        \A pair \in ReturnedPairs :
            /\ pair.keyA \notin Elements(keysB)
            /\ pair.keyA \in Elements(keysA)
            /\ pair.keyB \in Elements(keysB)
            /\ EqualIgnoringCase(pair.keyA, pair.keyB)
            /\ pair.keyA # pair.keyB

(***************************************************************************)
(* What the claims about check speak of.                                   *)
(***************************************************************************)
\* checkCommand has computed a CheckResult
CheckResultBuilt == command = "check" /\ result # <<>>

ExampleDoc == parsed[ExamplePath][1]

EnvDoc == parsed[EnvPath][1]

KeysOf(doc) == {doc.variables[n].k : n \in 1..Len(doc.variables)}

NoRepeats(s) == \A m, n \in 1..Len(s) : s[m] = s[n] => m = n

PairEnvSides == {result[1].caseMismatches[n].envKey : n \in 1..Len(result[1].caseMismatches)}

PairExampleSides ==
    {result[1].caseMismatches[n].exampleKey : n \in 1..Len(result[1].caseMismatches)}

(***************************************************************************)
(* C11.  In check, missing is exactly the example keys that are not keys   *)
(* of env and are not the example side of any case-mismatch pair, and      *)
(* extra is exactly the env keys that are not keys of example and are not  *)
(* the env side of any case-mismatch pair; so neither key of a pair        *)
(* reported as a case mismatch is also reported as missing or extra.       *)
(***************************************************************************)
C11_MissingExtraExact ==
    CheckResultBuilt =>
        /\ Elements(result[1].missing) =
              {k \in KeysOf(ExampleDoc) : k \notin KeysOf(EnvDoc) /\ k \notin PairExampleSides}
        /\ NoRepeats(result[1].missing)
        /\ Elements(result[1].extra) =
              {k \in KeysOf(EnvDoc) : k \notin KeysOf(ExampleDoc) /\ k \notin PairEnvSides}
        /\ NoRepeats(result[1].extra)
        /\ \A k \in PairEnvSides \cup PairExampleSides :
              k \notin Elements(result[1].missing) \cup Elements(result[1].extra)

\* a pair whose example side env does not hold, next to a key that is missing
C11_Witness ==
    /\ CheckResultBuilt
    /\ cpc = "exited"
    /\ \E k \in PairExampleSides : k \notin KeysOf(EnvDoc)
    /\ result[1].missing # <<>>

(***************************************************************************)
(* C12.  In check, empty is exactly the example keys for which env has an  *)
(* entry under the identical key whose value is the empty string; a key    *)
(* matched only case-insensitively, or present only in env, is never       *)
(* listed as empty.                                                        *)
(***************************************************************************)
HasEmptyValue(doc, key) ==
    \E n \in 1..Len(doc.variables) :
        doc.variables[n].k = key /\ doc.variables[n].v.value = <<>>

C12_EmptyExact ==
    CheckResultBuilt =>
        /\ Elements(result[1].empty) = {k \in KeysOf(ExampleDoc) : HasEmptyValue(EnvDoc, k)}
        /\ NoRepeats(result[1].empty)
        /\ \A k \in Elements(result[1].empty) :
              k \in KeysOf(ExampleDoc) /\ k \in KeysOf(EnvDoc)

\* an example key listed as empty, and another that only differs in case from
\* an env key with an empty value and is not listed
C12_Witness ==
    /\ CheckResultBuilt
    /\ cpc = "exited"
    /\ result[1].empty # <<>>
    /\ \E k \in KeysOf(ExampleDoc) \ Elements(result[1].empty) :
          \E e \in KeysOf(EnvDoc) : EqualIgnoringCase(k, e) /\ HasEmptyValue(EnvDoc, e)

(***************************************************************************)
(* C13.  Every CheckResult satisfies errors = |missing| + |caseMismatches| *)
(* and warnings = |empty| + |extra| + |duplicates| + |whitespaceIssues|,   *)
(* so both counters are zero if and only if all six lists are empty.       *)
(***************************************************************************)
C13_CountsExact ==
    CheckResultBuilt =>
        LET r == result[1]
        IN  /\ r.errors = Len(r.missing) + Len(r.caseMismatches)
            /\ r.warnings = Len(r.empty) + Len(r.extra) + Len(r.duplicates)
                                + Len(r.whitespaceIssues)
            /\ (r.errors = 0 /\ r.warnings = 0) <=>
                  /\ r.missing = <<>>
                  /\ r.caseMismatches = <<>>
                  /\ r.empty = <<>>
                  /\ r.extra = <<>>
                  /\ r.duplicates = <<>>
                  /\ r.whitespaceIssues = <<>>

\* a result with an error and with warnings of three kinds
C13_Witness ==
    /\ CheckResultBuilt
    /\ cpc = "exited"
    /\ result[1].errors > 0
    /\ result[1].duplicates # <<>>
    /\ result[1].whitespaceIssues # <<>>
    /\ result[1].extra # <<>>

(***************************************************************************)
(* C14.  The check command exits with code 0 only when no issues were      *)
(* found, and exits with code 1 whenever any warning or error was          *)
(* detected.                                                               *)
(***************************************************************************)
C14_ExitOneOnAnyIssue ==
    (CheckResultBuilt /\ cpc = "exited") =>
        /\ exitCode = <<0>> => (result[1].errors = 0 /\ result[1].warnings = 0)
        /\ (result[1].errors > 0 \/ result[1].warnings > 0) => exitCode = <<1>>

(***************************************************************************)
(* C15.  As claimed: when both files exist, the check command exits        *)
(* non-zero if and only if errors > 0, or strict mode is on and            *)
(* warnings > 0.  The files exist when fs.existsSync is true of both       *)
(* paths, whatever they name, from the start of the run to its end; the    *)
(* run ends when the process exits, by process.exit or by an exception     *)
(* nothing catches.                                                        *)
(***************************************************************************)
BothFilesExist ==
    /\ vanished = {}
    /\ existsSync(disk[ExamplePath].state)
    /\ existsSync(disk[EnvPath].state)

C15_ExitCodeMapping ==
    (command = "check" /\ cpc \in {"exited", "crashed"} /\ BothFilesExist) =>
        (exitCode # <<0>> <=>
            /\ CheckResultBuilt
            /\ \/ result[1].errors > 0
               \/ (options.strict /\ result[1].warnings > 0))

(***************************************************************************)
(* C16.  In check, a missing example file is a hard error: the command     *)
(* exits 1 without parsing anything or producing a CheckResult, whatever   *)
(* the state of the env file and the flags; a missing env file, with the   *)
(* example present, is only a warning: no CheckResult is produced and the  *)
(* command exits 0, or 1 under strict mode.                                *)
(***************************************************************************)
NothingParsed == \A p \in DOMAIN parsed : parsed[p] = <<>>

C16_MissingFiles ==
    (command = "check" /\ cpc # "start") =>
        /\ disk[ExamplePath].state = "missing" =>
              /\ cpc = "exited"
              /\ exitCode = <<1>>
              /\ NothingParsed
              /\ result = <<>>
        /\ (/\ disk[ExamplePath].state # "missing"
            /\ ExamplePath \notin vanished
            /\ disk[EnvPath].state = "missing"
            /\ cpc # "second") =>
              /\ cpc = "exited"
              /\ exitCode = <<IF options.strict THEN 1 ELSE 0>>
              /\ NothingParsed
              /\ result = <<>>
              /\ Len(output) = 1
              /\ output[1].stream = "json" => output[1].data.warning

\* the env file missing under strict mode
C16_Witness ==
    /\ command = "check"
    /\ cpc = "exited"
    /\ disk[ExamplePath].state = "file"
    /\ disk[EnvPath].state = "missing"
    /\ options.strict
    /\ exitCode = <<1>>

(***************************************************************************)
(* C17.  A command inspects the diagnostics of each document it parses and *)
(* halts with exit code 1 before using the entries of any document that    *)
(* carries an error-severity diagnostic, including when a file disappears  *)
(* between the existence check and the parse: no result is ever computed   *)
(* from such a document.                                                   *)
(***************************************************************************)
C17_NoResultFromErrorDocument ==
    result # <<>> =>
        \A p \in DOMAIN parsed :
            parsed[p] # <<>> => errorDiagnostics(parsed[p][1]) = <<>>

(***************************************************************************)
(* What the claims about diff and explain speak of.                        *)
(***************************************************************************)
DiffResultBuilt == command = "diff" /\ result # <<>>

DocA == parsed[FileA][1]

DocB == parsed[FileB][1]

ValueOf(doc, key) ==
    doc.variables[CHOOSE n \in 1..Len(doc.variables) : doc.variables[n].k = key].v.value

ExplainResultBuilt == command = "explain" /\ result # <<>>

(***************************************************************************)
(* C18.  For any two documents A and B, diff yields onlyInA = the keys of  *)
(* A that are not keys of B and onlyInB = the keys of B that are not keys  *)
(* of A, compared with exact case and each key at most once, so onlyInA    *)
(* and onlyInB are disjoint and both are empty when A and B have the same  *)
(* key set.                                                                *)
(***************************************************************************)
C18_OnlyInExact ==
    DiffResultBuilt =>
        /\ Elements(result[1].onlyInA) = KeysOf(DocA) \ KeysOf(DocB)
        /\ Elements(result[1].onlyInB) = KeysOf(DocB) \ KeysOf(DocA)
        /\ NoRepeats(result[1].onlyInA)
        /\ NoRepeats(result[1].onlyInB)
        /\ Elements(result[1].onlyInA) \cap Elements(result[1].onlyInB) = {}
        /\ KeysOf(DocA) = KeysOf(DocB) =>
              (result[1].onlyInA = <<>> /\ result[1].onlyInB = <<>>)

\* keys on either side only, one of them differing only in case from a key of
\* the other document
C18_Witness ==
    /\ DiffResultBuilt
    /\ cpc = "exited"
    /\ result[1].onlyInB # <<>>
    /\ \E k \in Elements(result[1].onlyInA) :
          \E other \in KeysOf(DocB) : EqualIgnoringCase(k, other)

(***************************************************************************)
(* C19.  diff's valueDifferences is empty when --values is off; when it is *)
(* on, it contains exactly one triple (key, valueA, valueB) for each key   *)
(* present in both documents whose stored values differ, and none for keys *)
(* with equal values or keys present in only one document.                 *)
(***************************************************************************)
DifferingKeys ==
    {k \in KeysOf(DocA) \cap KeysOf(DocB) : ValueOf(DocA, k) # ValueOf(DocB, k)}

C19_ValueDifferencesExact ==
    DiffResultBuilt =>
        /\ ~options.values => result[1].valueDifferences = <<>>
        /\ options.values =>
              /\ Elements(result[1].valueDifferences) =
                    {[key |-> k, valueA |-> ValueOf(DocA, k), valueB |-> ValueOf(DocB, k)] :
                        k \in DifferingKeys}
              /\ Len(result[1].valueDifferences) = Cardinality(DifferingKeys)

\* one key with differing values next to a shared key with equal values
C19_Witness ==
    /\ DiffResultBuilt
    /\ cpc = "exited"
    /\ options.values
    /\ result[1].valueDifferences # <<>>
    /\ (KeysOf(DocA) \cap KeysOf(DocB)) \ DifferingKeys # {}

(***************************************************************************)
(* C20.  explain reports found = true if and only if the requested name    *)
(* is, with exact case, a key of the example document; when it is absent   *)
(* the result carries only variable and found = false, with purpose,       *)
(* comments, exampleValue and inferredType all unpopulated.                *)
(***************************************************************************)
C20_FoundIffExactKey ==
    ExplainResultBuilt =>
        /\ result[1].found <=> varName \in KeysOf(ExampleDoc)
        /\ result[1].variable = varName
        /\ ~result[1].found => DOMAIN result[1] = {"variable", "found"}

\* a name that only differs in case from a key of the document
C20_Witness ==
    /\ ExplainResultBuilt
    /\ cpc = "exited"
    /\ ~result[1].found
    /\ \E k \in KeysOf(ExampleDoc) : EqualIgnoringCase(k, varName)

(***************************************************************************)
(* C21, as stated.  When explain finds the key, exampleValue is the stored *)
(* value, inferredType is inferType of that value, comments is the entry's *)
(* ordered comment list, and purpose is all comment lines joined by single *)
(* spaces, being the empty string when the entry has no comments.          *)
(***************************************************************************)
FoundEntry ==
    ExampleDoc.variables[CHOOSE n \in 1..Len(ExampleDoc.variables) :
                            ExampleDoc.variables[n].k = varName].v

\* the comment lines one after the other, a single space between two of them
RECURSIVE SpaceJoined(_)
SpaceJoined(cs) ==
    IF cs = <<>> THEN <<>>
    ELSE IF Len(cs) = 1 THEN cs[1]
    ELSE SpaceJoined(SubSeq(cs, 1, Len(cs) - 1)) \o <<" ">> \o cs[Len(cs)]

FoundFieldsExact ==
    /\ result[1].exampleValue = FoundEntry.value
    /\ result[1].inferredType = inferType(FoundEntry.value)
    /\ result[1].comments = FoundEntry.comments

C21_PurposeAlwaysPopulated ==
    (ExplainResultBuilt /\ result[1].found) =>
        /\ FoundFieldsExact
        /\ "purpose" \in DOMAIN result[1]
        /\ result[1].purpose = SpaceJoined(FoundEntry.comments)

(***************************************************************************)
(* C21, amended.  When explain finds the key, exampleValue is the stored   *)
(* value, inferredType is inferType of that value and comments is the      *)
(* entry's ordered comment list; purpose is all comment lines joined by    *)
(* single spaces when the entry has comments, and is left unpopulated, not *)
(* set to the empty string, when it has none.                              *)
(***************************************************************************)
C21_PurposeOnlyWithComments ==
    (ExplainResultBuilt /\ result[1].found) =>
        /\ FoundFieldsExact
        /\ "purpose" \in DOMAIN result[1] <=> FoundEntry.comments # <<>>
        /\ FoundEntry.comments # <<>> =>
              result[1].purpose = SpaceJoined(FoundEntry.comments)

\* a key found under two comment lines
C21_Witness ==
    /\ ExplainResultBuilt
    /\ cpc = "exited"
    /\ result[1].found
    /\ Len(result[1].comments) = 2
    /\ "purpose" \in DOMAIN result[1]

(***************************************************************************)
(* C22.  inferType is total and returns, for every string, the tag of the  *)
(* first matching rule in the fixed order empty, boolean, integer, number, *)
(* url, email, ip address, connection string, string; "0" is integer,      *)
(* "true" is boolean, an http(s) URL is url rather than connection string, *)
(* and "192.168.1.1" is ip address.  The rules are stated on the           *)
(* positions of the string.                                                *)
(***************************************************************************)
IsDigit(c) == c \in {"0", "1", "2", "3", "4", "5", "6", "7", "8", "9"}

IsLetter(c) == \E n \in 1..26 : c = UpperCase[n] \/ c = LowerCase[n]

\* v[a..b] is one digit at least and digits only
DigitsAt(v, a, b) == a <= b /\ \A k \in a..b : IsDigit(v[k])

SignLen(v) == IF v # <<>> /\ v[1] = "-" THEN 1 ELSE 0

RuleInteger(v) == DigitsAt(v, SignLen(v) + 1, Len(v))

RuleNumber(v) ==
    \E p \in 1..Len(v) :
        v[p] = "." /\ DigitsAt(v, SignLen(v) + 1, p - 1) /\ DigitsAt(v, p + 1, Len(v))

RuleUrl(v) ==
    \/ Len(v) >= 7 /\ SubSeq(v, 1, 7) = <<"h", "t", "t", "p", ":", "/", "/">>
    \/ Len(v) >= 8 /\ SubSeq(v, 1, 8) = <<"h", "t", "t", "p", "s", ":", "/", "/">>

RuleEmail(v) ==
    \E a, d \in 1..Len(v) :
        /\ v[a] = "@"
        /\ v[d] = "."
        /\ 1 < a
        /\ a + 1 < d
        /\ d + 2 <= Len(v)
        /\ \A k \in 1..(a - 1) :
              IsLetter(v[k]) \/ IsDigit(v[k]) \/ v[k] \in {".", "_", "%", "+", "-"}
        /\ \A k \in (a + 1)..(d - 1) : IsLetter(v[k]) \/ IsDigit(v[k]) \/ v[k] \in {".", "-"}
        /\ \A k \in (d + 1)..Len(v) : IsLetter(v[k])

RuleIpAddress(v) ==
    \E p, q, r \in 1..Len(v) :
        /\ p < q /\ q < r
        /\ v[p] = "." /\ v[q] = "." /\ v[r] = "."
        /\ DigitsAt(v, 1, p - 1) /\ p - 1 <= 3
        /\ DigitsAt(v, p + 1, q - 1) /\ q - p - 1 <= 3
        /\ DigitsAt(v, q + 1, r - 1) /\ r - q - 1 <= 3
        /\ DigitsAt(v, r + 1, Len(v)) /\ Len(v) - r <= 3

RuleConnectionString(v) ==
    /\ \E k \in 1..Len(v) : v[k] = ":"
    /\ \E k \in 1..(Len(v) - 1) : v[k] = "/" /\ v[k + 1] = "/"

FirstMatchingRule(v) ==
    IF v = <<>> THEN "empty"
    ELSE IF v \in {<<"t", "r", "u", "e">>, <<"f", "a", "l", "s", "e">>} THEN "boolean"
    ELSE IF RuleInteger(v) THEN "integer"
    ELSE IF RuleNumber(v) THEN "number"
    ELSE IF RuleUrl(v) THEN "url"
    ELSE IF RuleEmail(v) THEN "email"
    ELSE IF RuleIpAddress(v) THEN "ip address"
    ELSE IF RuleConnectionString(v) THEN "connection string"
    ELSE "string"

C22_FirstMatchingRule ==
    (ExplainResultBuilt /\ result[1].found) =>
        LET v == result[1].exampleValue
            tag == result[1].inferredType
        IN  /\ tag = FirstMatchingRule(v)
            /\ v = <<"0">> => tag = "integer"
            /\ v = <<"t", "r", "u", "e">> => tag = "boolean"
            /\ RuleUrl(v) => tag = "url"
            /\ v = <<"1","9","2",".","1","6","8",".","1",".","1">> => tag = "ip address"

\* an http URL, which the connection string rule matches too
C22_Witness ==
    /\ ExplainResultBuilt
    /\ cpc = "exited"
    /\ result[1].found
    /\ RuleUrl(result[1].exampleValue)
    /\ RuleConnectionString(result[1].exampleValue)
    /\ result[1].inferredType = "url"

(***************************************************************************)
(* C23.  Whenever the diff command outputs a value difference for a key    *)
(* whose name contains, ignoring case, one of password, secret, key,       *)
(* token, auth, credential or private, the values it outputs are masked,   *)
(* never the raw stored values, in every output mode.                      *)
(***************************************************************************)
SensitiveTerms ==
    {<<"p","a","s","s","w","o","r","d">>, <<"s","e","c","r","e","t">>, <<"k","e","y">>,
     <<"t","o","k","e","n">>, <<"a","u","t","h">>,
     <<"c","r","e","d","e","n","t","i","a","l">>, <<"p","r","i","v","a","t","e">>}

IsSensitiveKey(key) ==
    \E term \in SensitiveTerms :
        \E k \in 1..(Len(key) - Len(term) + 1) :
            EqualIgnoringCase(SubSeq(key, k, k + Len(term) - 1), term)

\* the value differences an item of the output shows
ShownDifferences(item) ==
    IF item.stream = "json"
    THEN (IF "valueDifferences" \in DOMAIN item.data
          THEN Elements(item.data.valueDifferences) ELSE {})
    ELSE (IF "valueDifferences" \in DOMAIN item
          THEN Elements(item.valueDifferences) ELSE {})

C23_SensitiveValuesMasked ==
    command = "diff" =>
        \A n \in 1..Len(output) :
            \A shown \in ShownDifferences(output[n]) :
                IsSensitiveKey(shown.key) =>
                    /\ shown.valueA # ValueOf(DocA, shown.key)
                    /\ shown.valueB # ValueOf(DocB, shown.key)

(***************************************************************************)
(* C24.  With --json, every command outputs its results as                 *)
(* machine-readable JSON: on every execution path, whatever is printed     *)
(* before exit is emitted through the JSON encoder and no human-readable   *)
(* message is printed.                                                     *)
(***************************************************************************)
C24_JsonOnlyOutput ==
    (command \in {"check", "diff", "explain"} /\ options.json) =>
        \A n \in 1..Len(output) : output[n].stream = "json"

(***************************************************************************)
(* C25.  check passes when env matches example exactly: if env and example *)
(* define exactly the same set of keys (identical spelling), and env has   *)
(* no duplicate key, no whitespace in a key and no empty value, then       *)
(* errors = 0, warnings = 0 and missing, extra and caseMismatches are all  *)
(* empty.                                                                  *)
(***************************************************************************)
\* the diagnostics of a document that warn of white space around a key
WhitespaceWarnings(doc) ==
    LET IsWhitespaceWarning(e) == e.type = "warning" /\ startsWith(e.message, WhitespaceText)
    IN  SelectSeq(doc.errors, IsWhitespaceWarning)

EnvMatchesExample ==
    /\ KeysOf(EnvDoc) = KeysOf(ExampleDoc)
    /\ EnvDoc.duplicates = <<>>
    /\ WhitespaceWarnings(EnvDoc) = <<>>
    /\ \A k \in KeysOf(EnvDoc) : ~HasEmptyValue(EnvDoc, k)

C25_CleanWhenMatching ==
    (CheckResultBuilt /\ EnvMatchesExample) =>
        /\ result[1].errors = 0
        /\ result[1].warnings = 0
        /\ result[1].missing = <<>>
        /\ result[1].extra = <<>>
        /\ result[1].caseMismatches = <<>>

(***************************************************************************)
(* C26.  In check, whitespaceIssues contains exactly one item for each     *)
(* 'Whitespace in variable name' warning of the env document, in           *)
(* diagnostic order, whose key is the offending untrimmed raw key text; no *)
(* other diagnostic (invalid-syntax or duplicate warning) ever yields a    *)
(* whitespace issue.                                                       *)
(***************************************************************************)
\* the raw key a white space warning quotes: what stands between the opening
\* quote and the closing one
QuotedRawKey(message) == SubSeq(message, Len(WhitespaceText) + 1, Len(message) - 1)

C26_WhitespaceIssuesExact ==
    CheckResultBuilt =>
        LET warnings == WhitespaceWarnings(EnvDoc)
            issues == result[1].whitespaceIssues
        IN  /\ Len(issues) = Len(warnings)
            /\ \A n \in 1..Len(issues) : issues[n].key = QuotedRawKey(warnings[n].message)

(***************************************************************************)
(* C27.  Every key stored in a parsed document is a non-empty string with  *)
(* no leading or trailing whitespace and no '=' character.                 *)
(***************************************************************************)
C27_KeysWellFormed ==
    \A n \in 1..Len(variables) :
        LET key == variables[n].k
        IN  /\ key # <<>>
            /\ key[1] \notin WhiteSpace
            /\ key[Len(key)] \notin WhiteSpace
            /\ \A k \in 1..Len(key) : key[k] # "="
            /\ variables[n].v.key = key

(***************************************************************************)
(* C28.  Parsing does not depend on the line terminator: a text whose      *)
(* lines end in CRLF yields the same entries (keys, values, line numbers,  *)
(* comments), duplicates and diagnostics as the same text with LF line     *)
(* endings.                                                                *)
(***************************************************************************)
\* the text with every LF turned into CRLF
RECURSIVE WithCRLF(_)
WithCRLF(text) ==
    IF text = <<>> THEN <<>>
    ELSE (IF Head(text) = "\n" THEN <<"\r", "\n">> ELSE <<Head(text)>>) \o WithCRLF(Tail(text))

C28_SameWithCRLF ==
    (Parsed /\ \A k \in 1..Len(content) : content[k] # "\r") =>
        LET crlf == parseEnvFile("file", filePath, WithCRLF(content))
        IN  /\ crlf.variables = variables
            /\ crlf.duplicates = duplicates
            /\ crlf.errors = errors

(***************************************************************************)
(* C29.  The diff command exits 0, reporting 'Files are identical' in      *)
(* human-readable mode, only if the two documents have the same key set    *)
(* and equal stored values for every key, and exits 1 otherwise, whether   *)
(* or not the values flag is given.                                        *)
(***************************************************************************)
SameKeysAndValues ==
    /\ KeysOf(DocA) = KeysOf(DocB)
    /\ \A k \in KeysOf(DocA) : ValueOf(DocA, k) = ValueOf(DocB, k)

ReportsIdentical ==
    \E n \in 1..Len(output) : output[n].stream = "text" /\ output[n].kind = "identical"

C29_ExitZeroOnlyIfIdentical ==
    (command = "diff" /\ cpc = "exited") =>
        /\ exitCode = <<0>> => (DiffResultBuilt /\ SameKeysAndValues)
        /\ ReportsIdentical => (DiffResultBuilt /\ SameKeysAndValues)
        /\ (DiffResultBuilt /\ ~SameKeysAndValues) => exitCode = <<1>>

====
